---- MODULE Spec2Model ----
(***************************************************************************)
(* TARS: context / session / action orchestration core.                    *)
(*                                                                         *)
(* The store (pending_actions, conversations, messages, proposals,         *)
(* user_sessions, knowledge_base) is the single source of truth; every     *)
(* Orchestrator entry point is an async method, modelled as a process      *)
(* whose steps are the awaits of its code.                                 *)
(***************************************************************************)
EXTENDS Integers, Sequences, FiniteSets, TLC

(***************************************************************************)
(* Bounds of the model.                                                    *)
(***************************************************************************)
MaxActions == 1
TickHours == 12
MaxTime == 48
MaxAudit == 2
NumUsers == 1
NumCampaigns == 1
MaxProposals == 1
MaxConvs == 2
MaxMsgs == 3
MaxFacts == 1
MaxSummaries == 1
MaxResummaries == 2
NumWorkers == 2
NumDates == 2
MaxCatalogue == 7
MaxGenerated == 2
MaxRecs == 2
NumChats == 2
MaxStatRows == 2

(***************************************************************************)
(* Program constants.                                                      *)
(***************************************************************************)
ExpiryHours == 24
SuggestLimit == 5
LowConfidence == 50

NULL == "NULL"

\* A row that is not in the table (findById yields null).
NoAction == [status |-> NULL, created_at |-> 0]

\* SQL NULL in an id column.
NoId == 0

NoProposal == [status |-> NULL, conversation_id |-> NoId]

NoConversation ==
  [type |-> NULL, campaign_id |-> NoId, proposal_id |-> NoId,
   status |-> NULL, summary |-> NULL]

NoSession ==
  [exists |-> FALSE, current_conversation_id |-> NoId,
   current_campaign_id |-> NoId]

\* SessionContext before any getSession.
NoSessionContext ==
  [currentCampaignId |-> NoId, currentConversationId |-> NoId,
   currentProposalId |-> NoId]

\* The calls of a behaviour follow one another: one caller issues them.
Procs == {"caller"}
ActionIds == 1..MaxActions
Users == 1..NumUsers
CampaignIds == 1..NumCampaigns
ProposalIds == 1..MaxProposals
ConvIds == 1..MaxConvs
Workers == 1..NumWorkers
Dates == 1..NumDates
Roles == {"user", "assistant"}

\* campaigns.yandex_id of the campaign with internal id c, and the ids a
\* caller may pass: every known yandex_id and one the store does not hold.
YandexIdOf(c) == 100 + c
YandexIds == {YandexIdOf(c) : c \in CampaignIds} \cup {100}

\* The proposal ids a caller may pass: every id the store may hold and one
\* it never holds.
ProposalArgs == ProposalIds \cup {0}

ActionStatus == {"pending", "approved", "rejected", "executed", "failed"}
TerminalStatus == {"executed", "failed", "rejected"}

VARIABLES
  pending_actions,  \* table pending_actions: id -> row or NULL
  now,              \* wall clock, hours
  apiCalls,         \* platform mutating calls made, per action
  experiments,      \* audit entries in the experiments log, per action
  campaigns,        \* table campaigns: set of rows
  proposals,        \* table proposals: id -> row or NoProposal
  conversations,    \* table conversations: id -> row or NoConversation
  messages,         \* table messages: conversation id -> roles, oldest first
  user_sessions,    \* table user_sessions: user -> row or NoSession
  knowledge_base,   \* facts with source conversation/<id>, per conversation
  learnings,        \* entries of the long-term log, per conversation
  summarizeCalls,   \* ai.summarizeConversation calls, per conversation
  pc,               \* position of each Orchestrator call
  call,             \* locals of each Orchestrator call
  wpc,              \* position of each worker's ContextManager call
  wcall,            \* locals of each worker's ContextManager call
  daily_stats,      \* table daily_stats: set of rows
  applied,          \* history: per (campaign, date), the input of the last
                    \* upsert statement executed
  history           \* history of a run of calls none of which overlapped:
                    \* the key and conversation of the last
                    \* getOrCreateConversation, the conversation finalized
                    \* since; void once two calls have overlapped

focusVars ==
  <<campaigns, proposals, conversations, messages, user_sessions,
    knowledge_base, learnings, summarizeCalls>>

actionVars == <<pending_actions, now, apiCalls, experiments>>

workerVars == <<wpc, wcall, history>>

statVars == <<daily_stats, applied>>

extVars == <<workerVars, statVars>>

vars == <<actionVars, focusVars, pc, call, extVars>>

NoCall ==
  [op |-> "none", id |-> 0, action |-> NoAction, err |-> "none", result |-> "none",
   pre |-> NULL, age |-> 0, post |-> NULL, api |-> 0, apiFailed |-> FALSE,
   logged |-> 0,
   user |-> 0, arg |-> 0, phase |-> 0, session |-> NoSessionContext,
   campaign |-> 0, conv |-> 0, facts |-> 0,
   preConv |-> 0, preMsgs |-> 0, preCampaign |-> 0, archive |-> "none", archiveErr |-> FALSE,
   summarized |-> 0, wrote |-> 0]

AllIdle == \A q \in Procs : pc[q] = "idle"

\* Process p begins a call with locals c.
Begin(p, c) == [call EXCEPT ![p] = c]

StatusOf(id) == pending_actions[id].status

----
(***************************************************************************)
(* actionsRepo (src/database/repositories/actions.ts)                      *)
(***************************************************************************)

\* INSERT INTO pending_actions ... RETURNING *: a fresh id, status defaults
\* to 'pending', created_at to NOW().
FreeActionIds == {id \in ActionIds : pending_actions[id] = NoAction}

create(id) ==
  [pending_actions EXCEPT ![id] = [status |-> "pending", created_at |-> now]]

\* SELECT * FROM pending_actions WHERE id = $1
findById(id) == pending_actions[id]

\* Mutants of updateStatus: an UPDATE that matches no row, and an UPDATE
\* guarded by WHERE status = 'pending'.
updateStatus_NoRow(id, status) == pending_actions

updateStatus_Guarded(id, status) ==
  IF pending_actions[id] # NoAction /\ pending_actions[id].status = "pending"
    THEN [pending_actions EXCEPT ![id].status = status]
    ELSE pending_actions

\* UPDATE pending_actions SET status = $1 WHERE id = $2: no condition on the
\* current status; a missing row is left missing.
updateStatus(id, status) ==
  IF pending_actions[id] = NoAction
    THEN pending_actions
    ELSE [pending_actions EXCEPT ![id].status = status]

----
(***************************************************************************)
(* ActionManager (modules/actions/manager): approval state machine.        *)
(***************************************************************************)

\* createAction(campaignId, type, params, reasoning): persists in pending.
createAction ==
  /\ AllIdle
  /\ \E id \in FreeActionIds :
       /\ id = CHOOSE m \in FreeActionIds : \A k \in FreeActionIds : m <= k
       /\ pending_actions' = create(id)
  /\ UNCHANGED focusVars
  /\ UNCHANGED <<now, apiCalls, experiments, pc, call>>
  /\ UNCHANGED extVars

\* executeAction step 1-2 and the terminal no-op: load the action and decide.
AM_executeAction_load(p) ==
  /\ pc[p] = "am_load"
  /\ LET a == findById(call[p].id) IN
       IF a = NoAction
         THEN /\ pc' = [pc EXCEPT ![p] = "ex_catch"]
              /\ call' = [call EXCEPT ![p].err = "NotFound"]
       ELSE IF a.status \in TerminalStatus
         THEN /\ pc' = [pc EXCEPT ![p] = "ex_log"]
              /\ call' = call
       ELSE IF now - a.created_at > ExpiryHours
         THEN /\ pc' = [pc EXCEPT ![p] = "am_expire"]
              /\ call' = call
       ELSE /\ pc' = [pc EXCEPT ![p] = "am_approve"]
            /\ call' = call
  /\ UNCHANGED focusVars
  /\ UNCHANGED <<pending_actions, now, apiCalls, experiments>>
  /\ UNCHANGED extVars

\* Age > 24h: transition to rejected and signal Expired.
AM_executeAction_expire(p) ==
  /\ pc[p] = "am_expire"
  /\ pending_actions' = updateStatus(call[p].id, "rejected")
  /\ pc' = [pc EXCEPT ![p] = "ex_catch"]
  /\ call' = [call EXCEPT ![p].err = "Expired"]
  /\ UNCHANGED focusVars
  /\ UNCHANGED <<now, apiCalls, experiments>>
  /\ UNCHANGED extVars

\* pending -> approved before the dispatch.
AM_executeAction_approve(p) ==
  /\ pc[p] = "am_approve"
  /\ pending_actions' = updateStatus(call[p].id, "approved")
  /\ pc' = [pc EXCEPT ![p] = "am_call"]
  /\ UNCHANGED focusVars
  /\ UNCHANGED <<now, apiCalls, experiments, call>>
  /\ UNCHANGED extVars

\* Dispatch via the type -> API-call table: one platform mutating call,
\* which succeeds or fails.
AM_executeAction_dispatch(p) ==
  /\ pc[p] = "am_call"
  /\ apiCalls' = [apiCalls EXCEPT ![call[p].id] = @ + 1]
  /\ \E ok \in BOOLEAN :
       /\ pc' = [pc EXCEPT ![p] = IF ok THEN "am_executed" ELSE "am_failed"]
       /\ call' = [call EXCEPT ![p].api = @ + 1, ![p].apiFailed = ~ok]
  /\ UNCHANGED focusVars
  /\ UNCHANGED <<pending_actions, now, experiments>>
  /\ UNCHANGED extVars

\* Success -> executed.
AM_executeAction_executed(p) ==
  /\ pc[p] = "am_executed"
  /\ pending_actions' = updateStatus(call[p].id, "executed")
  /\ pc' = [pc EXCEPT ![p] = "ex_log"]
  /\ UNCHANGED focusVars
  /\ UNCHANGED <<now, apiCalls, experiments, call>>
  /\ UNCHANGED extVars

\* Failure -> failed; the error is propagated.
AM_executeAction_failed(p) ==
  /\ pc[p] = "am_failed"
  /\ pending_actions' = updateStatus(call[p].id, "failed")
  /\ pc' = [pc EXCEPT ![p] = "ex_catch"]
  /\ call' = [call EXCEPT ![p].err = "UpstreamFailure"]
  /\ UNCHANGED focusVars
  /\ UNCHANGED <<now, apiCalls, experiments>>
  /\ UNCHANGED extVars

\* rejectAction(actionId): unconditional -> rejected.
AM_rejectAction(p) ==
  /\ pc[p] = "rj_reject"
  /\ pending_actions' = updateStatus(call[p].id, "rejected")
  /\ pc' = [pc EXCEPT ![p] = "done"]
  /\ call' = [call EXCEPT ![p].result = "ok",
                          ![p].post = pending_actions'[call[p].id].status]
  /\ UNCHANGED focusVars
  /\ UNCHANGED <<now, apiCalls, experiments>>
  /\ UNCHANGED extVars

----
(***************************************************************************)
(* Orchestrator.executeAction / rejectAction                               *)
(***************************************************************************)

\* A caller (the approve button) invokes Orchestrator.executeAction(id).
executeAction_begin(p, id) ==
  /\ pc[p] = "idle"
  /\ experiments[id] < MaxAudit
  /\ pc' = [pc EXCEPT ![p] = "ex_find"]
  /\ call' = Begin(p,
       [NoCall EXCEPT !.op = "executeAction", !.id = id,
                      !.pre = StatusOf(id),
                      !.age = IF pending_actions[id] = NoAction THEN 0
                              ELSE now - pending_actions[id].created_at])
  /\ UNCHANGED focusVars
  /\ UNCHANGED <<pending_actions, now, apiCalls, experiments>>
  /\ UNCHANGED extVars

\* const action = await actionsRepo.findById(actionId)
executeAction_findById(p) ==
  /\ pc[p] = "ex_find"
  /\ call' = [call EXCEPT ![p].action = findById(call[p].id)]
  /\ pc' = [pc EXCEPT ![p] = "am_load"]
  /\ UNCHANGED focusVars
  /\ UNCHANGED <<pending_actions, now, apiCalls, experiments>>
  /\ UNCHANGED extVars

\* actionManager.executeAction returned: if (action) saveExperiment(...)
executeAction_log(p) ==
  /\ pc[p] = "ex_log"
  /\ IF call[p].action # NoAction
       THEN /\ experiments' = [experiments EXCEPT ![call[p].id] = @ + 1]
            /\ call' = [call EXCEPT ![p].result = "ok", ![p].logged = @ + 1,
                                    ![p].post = StatusOf(call[p].id)]
       ELSE /\ experiments' = experiments
            /\ call' = [call EXCEPT ![p].result = "ok",
                                    ![p].post = StatusOf(call[p].id)]
  /\ pc' = [pc EXCEPT ![p] = "done"]
  /\ UNCHANGED focusVars
  /\ UNCHANGED <<pending_actions, now, apiCalls>>
  /\ UNCHANGED extVars

\* Mutant: catch logs the error and does not rethrow.
executeAction_catch_Swallow(p) ==
  /\ pc[p] = "ex_catch"
  /\ pc' = [pc EXCEPT ![p] = "done"]
  /\ call' = [call EXCEPT ![p].result = "ok", ![p].post = StatusOf(call[p].id)]
  /\ UNCHANGED focusVars
  /\ UNCHANGED <<pending_actions, now, apiCalls, experiments>>
  /\ UNCHANGED extVars

\* Mutant: the audit entry is written in a finally block.
executeAction_catch_Finally(p) ==
  /\ pc[p] = "ex_catch"
  /\ pc' = [pc EXCEPT ![p] = "done"]
  /\ experiments' = [experiments EXCEPT ![call[p].id] = @ + 1]
  /\ call' = [call EXCEPT ![p].result = call[p].err, ![p].logged = @ + 1,
                          ![p].post = StatusOf(call[p].id)]
  /\ UNCHANGED focusVars
  /\ UNCHANGED <<pending_actions, now, apiCalls>>
  /\ UNCHANGED extVars

\* catch (error) { logger.error(...); throw error; }
executeAction_catch(p) ==
  /\ pc[p] = "ex_catch"
  /\ pc' = [pc EXCEPT ![p] = "done"]
  /\ call' = [call EXCEPT ![p].result = call[p].err,
                          ![p].post = StatusOf(call[p].id)]
  /\ UNCHANGED focusVars
  /\ UNCHANGED <<pending_actions, now, apiCalls, experiments>>
  /\ UNCHANGED extVars

\* Orchestrator.rejectAction(actionId): delegates to the ActionManager.
rejectAction_begin(p, id) ==
  /\ pc[p] = "idle"
  /\ pc' = [pc EXCEPT ![p] = "rj_reject"]
  /\ call' = Begin(p,
       [NoCall EXCEPT !.op = "rejectAction", !.id = id, !.pre = StatusOf(id)])
  /\ UNCHANGED focusVars
  /\ UNCHANGED <<pending_actions, now, apiCalls, experiments>>
  /\ UNCHANGED extVars

\* The promise of the call settles: its caller takes the outcome and the
\* locals of the call are gone.
call_settle(p) ==
  /\ pc[p] = "done"
  /\ pc' = [pc EXCEPT ![p] = "idle"]
  /\ call' = [call EXCEPT ![p] = NoCall]
  /\ UNCHANGED <<actionVars, focusVars>>
  /\ UNCHANGED extVars

\* Time passes.
Tick ==
  /\ now + TickHours <= MaxTime
  /\ now' = now + TickHours
  /\ UNCHANGED focusVars
  /\ UNCHANGED <<pending_actions, apiCalls, experiments, pc, call>>
  /\ UNCHANGED extVars

----
(***************************************************************************)
(* ContextManager (src/modules/context/manager.ts)                         *)
(***************************************************************************)

\* getSession: INSERT INTO user_sessions ... ON CONFLICT DO UPDATE SET
\* updated_at = NOW(); the row exists afterwards.
getSession_upsert(u) == [user_sessions EXCEPT ![u].exists = TRUE]

\* The SessionContext built from the row: currentProposalId is not among
\* the fields getSession fills in.
SessionContextOf(row) ==
  [currentCampaignId |-> row.current_campaign_id,
   currentConversationId |-> row.current_conversation_id,
   currentProposalId |-> NoId]

getSession(u) == SessionContextOf(user_sessions[u])

\* Mutant: the clauses are built on truthiness (if (updates.x)) instead of
\* on the presence of the key, so a null never reaches the row.
updateSession_Truthy(u, updates) ==
  LET row == user_sessions[u]
      r1 == IF "currentCampaignId" \in DOMAIN updates
                 /\ updates.currentCampaignId # NoId
              THEN [row EXCEPT !.current_campaign_id = updates.currentCampaignId]
              ELSE row
      r2 == IF "currentConversationId" \in DOMAIN updates
                 /\ updates.currentConversationId # NoId
              THEN [r1 EXCEPT !.current_conversation_id = updates.currentConversationId]
              ELSE r1
  IN  IF row.exists THEN [user_sessions EXCEPT ![u] = r2] ELSE user_sessions

\* updateSession: a SET clause for currentCampaignId and for
\* currentConversationId when the key is in updates; no clause for
\* currentProposalId; UPDATE ... WHERE telegram_user_id = u.
updateSession(u, updates) ==
  LET row == user_sessions[u]
      r1 == IF "currentCampaignId" \in DOMAIN updates
              THEN [row EXCEPT !.current_campaign_id = updates.currentCampaignId]
              ELSE row
      r2 == IF "currentConversationId" \in DOMAIN updates
              THEN [r1 EXCEPT !.current_conversation_id = updates.currentConversationId]
              ELSE r1
  IN  IF row.exists THEN [user_sessions EXCEPT ![u] = r2] ELSE user_sessions

\* SELECT * FROM messages WHERE conversation_id = $1 ORDER BY created_at ASC
getConversationMessages(c) == messages[c]

\* Mutant: the summary is stored, the status is left as it was.
finalizeConversation_SummaryOnly(c) ==
  [conversations EXCEPT ![c].summary = "summary"]

\* UPDATE conversations SET status = 'archived', summary = $1 WHERE id = $2
finalizeConversation(c) ==
  [conversations EXCEPT ![c].status = "archived", ![c].summary = "summary"]

\* The lookup of getOrCreateConversation: type and status = 'active', and
\* campaign_id / proposal_id only when the argument is given.
FindActive(type, campaignId, proposalId) ==
  {c \in ConvIds :
     /\ conversations[c].type = type
     /\ conversations[c].status = "active"
     /\ campaignId # NoId => conversations[c].campaign_id = campaignId
     /\ proposalId # NoId => conversations[c].proposal_id = proposalId}

FreeConvIds == {c \in ConvIds : conversations[c] = NoConversation}

\* INSERT INTO conversations (type, campaign_id, proposal_id): status
\* defaults to 'active'.
InsertConversation(c, type, campaignId, proposalId) ==
  [conversations EXCEPT ![c] =
     [type |-> type, campaign_id |-> campaignId, proposal_id |-> proposalId,
      status |-> "active", summary |-> NULL]]

RECURSIVE SumOver(_, _)
SumOver(f, S) ==
  IF S = {} THEN 0
  ELSE LET x == CHOOSE y \in S : TRUE IN f[x] + SumOver(f, S \ {x})

\* Rows of table messages.
TotalMessages == SumOver([c \in ConvIds |-> Len(messages[c])], ConvIds)

\* The role of the next message of conversation c: its callers append the
\* user's message, then the assistant's reply.
TurnRole(c) == IF Len(messages[c]) % 2 = 0 THEN "user" ELSE "assistant"

\* addMessage(conversationId, role, content): INSERT INTO messages. Its
\* callers pass the id of the conversation getOrCreateConversation gave
\* them, an active one.
addMessage(c, role) ==
  /\ AllIdle
  /\ conversations[c].status = "active"
  /\ TotalMessages < MaxMsgs
  /\ messages' = [messages EXCEPT ![c] = Append(@, role)]
  /\ UNCHANGED <<campaigns, proposals, conversations, user_sessions,
                 knowledge_base, learnings, summarizeCalls>>
  /\ UNCHANGED <<actionVars, pc, call>>
  /\ UNCHANGED extVars

----
(***************************************************************************)
(* Orchestrator focus management: clearCurrentContext, setCurrentCampaign, *)
(* setCurrentProposal, archiveCurrentConversation.                         *)
(***************************************************************************)

FocusOps == {"setCurrentCampaign", "setCurrentProposal", "clearCurrentContext"}

\* Mutant: the new focus is applied before the previous conversation is
\* archived.
FocusSwitchOrder_ApplyFirst == <<"apply", "archive">>

\* await this.archiveCurrentConversation(userId);
\* await this.context.<operation>(userId, ...);
FocusSwitchOrder == <<"archive", "apply">>

ApplyLabel(op) ==
  CASE op = "setCurrentCampaign" -> "cm_campaign_find"
    [] op = "setCurrentProposal" -> "cm_proposal_find"
    [] op = "clearCurrentContext" -> "goc_find"

PhaseLabel(op, i) ==
  IF i > Len(FocusSwitchOrder) THEN "fs_return"
  ELSE IF FocusSwitchOrder[i] = "archive" THEN "ar_session"
  ELSE ApplyLabel(op)

\* The position after the running phase of call p.
NextPhase(p) == PhaseLabel(call[p].op, call[p].phase + 1)

\* The call may reach the INSERT of getOrCreateConversation: no active
\* conversation of its key is left once the current one is archived.
MayInsert(op, u, arg) ==
  LET cur == user_sessions[u].current_conversation_id
      gone == IF cur # NoId /\ Len(messages[cur]) >= 2 THEN {cur} ELSE {}
  IN  CASE op = "setCurrentProposal" -> FALSE
        [] op = "clearCurrentContext" ->
             FindActive("general", NoId, NoId) \ gone = {}
        [] op = "setCurrentCampaign" ->
             \E r \in campaigns :
               /\ r.yandex_id = arg
               /\ FindActive("campaign_analysis", r.id, NoId) \ gone = {}

\* A caller invokes one of the three focus operations for user u.
focus_enter(p, op, u, arg) ==
  /\ pc[p] = "idle"
  /\ MayInsert(op, u, arg) => FreeConvIds # {}
  /\ pc' = [pc EXCEPT ![p] = PhaseLabel(op, 1)]
  /\ call' = Begin(p,
       [NoCall EXCEPT !.op = op, !.user = u, !.arg = arg, !.phase = 1,
          !.preCampaign = user_sessions[u].current_campaign_id,
          !.preConv = user_sessions[u].current_conversation_id,
          !.preMsgs = IF user_sessions[u].current_conversation_id = NoId
                        THEN 0
                        ELSE Len(messages[user_sessions[u].current_conversation_id])])
  /\ UNCHANGED <<actionVars, focusVars>>
  /\ UNCHANGED extVars

\* The focus operations of a run that summarizes at most MaxSummaries times.
focus_begin(p, op, u, arg) ==
  /\ SumOver(summarizeCalls, ConvIds) < MaxSummaries
  /\ focus_enter(p, op, u, arg)

\* The focus operations of a run long enough to summarize MaxResummaries
\* times.
focus_again(p, op, u, arg) ==
  /\ SumOver(summarizeCalls, ConvIds) < MaxResummaries
  /\ focus_enter(p, op, u, arg)

\* archiveCurrentConversation: const session = await getSession(userId);
\* if (!session.currentConversationId) return;
archive_getSession(p) ==
  /\ pc[p] = "ar_session"
  /\ user_sessions' = getSession_upsert(call[p].user)
  /\ LET session == SessionContextOf(user_sessions'[call[p].user]) IN
       IF session.currentConversationId = NoId
         THEN /\ pc' = [pc EXCEPT ![p] = NextPhase(p)]
              /\ call' = [call EXCEPT ![p].session = session,
                                      ![p].archive = "skipped",
                                      ![p].phase = @ + 1]
         ELSE /\ pc' = [pc EXCEPT ![p] = "ar_messages"]
              /\ call' = [call EXCEPT ![p].session = session]
  /\ UNCHANGED <<campaigns, proposals, conversations, messages,
                 knowledge_base, learnings, summarizeCalls>>
  /\ UNCHANGED actionVars
  /\ UNCHANGED extVars

\* Mutant: only empty conversations are left unsummarized.
archive_getMessages_Short(p) ==
  /\ pc[p] = "ar_messages"
  /\ IF Len(getConversationMessages(call[p].session.currentConversationId)) < 1
       THEN /\ pc' = [pc EXCEPT ![p] = NextPhase(p)]
            /\ call' = [call EXCEPT ![p].archive = "skipped", ![p].phase = @ + 1]
       ELSE /\ pc' = [pc EXCEPT ![p] = "ar_summarize"]
            /\ call' = call
  /\ UNCHANGED <<actionVars, focusVars>>
  /\ UNCHANGED extVars

\* const messages = await getConversationMessages(...);
\* if (messages.length < 2) return;
archive_getMessages(p) ==
  /\ pc[p] = "ar_messages"
  /\ IF Len(getConversationMessages(call[p].session.currentConversationId)) < 2
       THEN /\ pc' = [pc EXCEPT ![p] = NextPhase(p)]
            /\ call' = [call EXCEPT ![p].archive = "skipped", ![p].phase = @ + 1]
       ELSE /\ pc' = [pc EXCEPT ![p] = "ar_summarize"]
            /\ call' = call
  /\ UNCHANGED <<actionVars, focusVars>>
  /\ UNCHANGED extVars

\* const summary = await this.ai.summarizeConversation(messages): the LLM
\* call fails, or answers with a summary carrying k key facts.
archive_summarize(p) ==
  /\ pc[p] = "ar_summarize"
  /\ summarizeCalls' =
       [summarizeCalls EXCEPT ![call[p].session.currentConversationId] = @ + 1]
  /\ \E ok \in BOOLEAN, k \in 0..MaxFacts :
       IF ok
         THEN /\ pc' = [pc EXCEPT ![p] = "ar_finalize"]
              /\ call' = [call EXCEPT ![p].facts = k, ![p].summarized = @ + 1]
         ELSE /\ k = 0
              /\ pc' = [pc EXCEPT ![p] = "ar_catch"]
              /\ call' = [call EXCEPT ![p].summarized = @ + 1]
  /\ UNCHANGED <<campaigns, proposals, conversations, messages, user_sessions,
                 knowledge_base, learnings>>
  /\ UNCHANGED actionVars
  /\ UNCHANGED extVars

\* await this.context.finalizeConversation(conversationId, summary.summary)
archive_finalize(p) ==
  /\ pc[p] = "ar_finalize"
  /\ conversations' = finalizeConversation(call[p].session.currentConversationId)
  /\ pc' = [pc EXCEPT ![p] = IF call[p].facts > 0 THEN "ar_knowledge"
                                                   ELSE "ar_learning"]
  /\ call' = [call EXCEPT ![p].wrote = @ + 1]
  /\ UNCHANGED <<campaigns, proposals, messages, user_sessions,
                 knowledge_base, learnings, summarizeCalls>>
  /\ UNCHANGED actionVars
  /\ UNCHANGED extVars

\* for (const fact of summary.keyFacts) await this.context.addKnowledge(
\*   fact, `conversation/${id}`, session.currentCampaignId)
archive_addKnowledge(p) ==
  /\ pc[p] = "ar_knowledge"
  /\ knowledge_base' =
       [knowledge_base EXCEPT ![call[p].session.currentConversationId] = @ + 1]
  /\ pc' = [pc EXCEPT ![p] = IF call[p].facts > 1 THEN "ar_knowledge"
                                                   ELSE "ar_learning"]
  /\ call' = [call EXCEPT ![p].facts = @ - 1, ![p].wrote = @ + 1]
  /\ UNCHANGED <<campaigns, proposals, conversations, messages, user_sessions,
                 learnings, summarizeCalls>>
  /\ UNCHANGED actionVars
  /\ UNCHANGED extVars

\* await loader.saveLearning(..., 'auto', `conversation/${id}`): the write
\* to the long-term log succeeds or fails.
archive_saveLearning(p) ==
  /\ pc[p] = "ar_learning"
  /\ \E ok \in BOOLEAN :
       IF ok
         THEN /\ learnings' =
                   [learnings EXCEPT ![call[p].session.currentConversationId] = @ + 1]
              /\ pc' = [pc EXCEPT ![p] = NextPhase(p)]
              /\ call' = [call EXCEPT ![p].archive = "done", ![p].phase = @ + 1]
         ELSE /\ learnings' = learnings
              /\ pc' = [pc EXCEPT ![p] = "ar_catch"]
              /\ call' = call
  /\ UNCHANGED <<campaigns, proposals, conversations, messages, user_sessions,
                 knowledge_base, summarizeCalls>>
  /\ UNCHANGED actionVars
  /\ UNCHANGED extVars

\* Mutant: the catch block rethrows.
archive_catch_Rethrow(p) ==
  /\ pc[p] = "ar_catch"
  /\ pc' = [pc EXCEPT ![p] = "done"]
  /\ call' = [call EXCEPT ![p].archive = "failed", ![p].archiveErr = TRUE,
                          ![p].result = "UpstreamFailure",
                          ![p].post = "returned"]
  /\ UNCHANGED <<actionVars, focusVars>>
  /\ UNCHANGED extVars

\* catch (error) { logger.error(...); } the failure does not leave
\* archiveCurrentConversation.
archive_catch(p) ==
  /\ pc[p] = "ar_catch"
  /\ pc' = [pc EXCEPT ![p] = NextPhase(p)]
  /\ call' = [call EXCEPT ![p].archive = "failed", ![p].archiveErr = TRUE,
                          ![p].phase = @ + 1]
  /\ UNCHANGED <<actionVars, focusVars>>
  /\ UNCHANGED extVars

\* ContextManager.setCurrentCampaign: SELECT id FROM campaigns WHERE
\* yandex_id = $1; no row -> throw Error('Campaign not found').
setCurrentCampaign_find(p) ==
  /\ pc[p] = "cm_campaign_find"
  /\ LET rows == {r \in campaigns : r.yandex_id = call[p].arg} IN
       IF rows = {}
         THEN /\ pc' = [pc EXCEPT ![p] = "done"]
              /\ call' = [call EXCEPT ![p].result = "NotFound",
                                      ![p].post = "returned"]
         ELSE /\ pc' = [pc EXCEPT ![p] = "goc_find"]
              /\ \E r \in rows : call' = [call EXCEPT ![p].campaign = r.id]
  /\ UNCHANGED <<actionVars, focusVars>>
  /\ UNCHANGED extVars

\* ContextManager.setCurrentProposal: SELECT id, conversation_id FROM
\* proposals WHERE id = $1; no row -> throw Error('Proposal not found').
setCurrentProposal_find(p) ==
  /\ pc[p] = "cm_proposal_find"
  /\ IF call[p].arg \notin ProposalIds \/ proposals[call[p].arg] = NoProposal
       THEN /\ pc' = [pc EXCEPT ![p] = "done"]
            /\ call' = [call EXCEPT ![p].result = "NotFound",
                                    ![p].post = "returned"]
       ELSE /\ pc' = [pc EXCEPT ![p] = "cm_update"]
            /\ call' = [call EXCEPT ![p].conv = proposals[call[p].arg].conversation_id]
  /\ UNCHANGED <<actionVars, focusVars>>
  /\ UNCHANGED extVars

\* The conversation key of the call: ('campaign_analysis', campaign id) for
\* setCurrentCampaign, ('general') for clearCurrentContext.
KeyType(p) ==
  IF call[p].op = "setCurrentCampaign" THEN "campaign_analysis" ELSE "general"

\* getOrCreateConversation: SELECT ... LIMIT 1 of an active conversation
\* matching the key.
getOrCreateConversation_find(p) ==
  /\ pc[p] = "goc_find"
  /\ LET found == FindActive(KeyType(p), call[p].campaign, NoId) IN
       IF found # {}
         THEN /\ pc' = [pc EXCEPT ![p] = "cm_update"]
              /\ \E c \in found : call' = [call EXCEPT ![p].conv = c]
         ELSE /\ pc' = [pc EXCEPT ![p] = "goc_insert"]
              /\ call' = call
  /\ UNCHANGED <<actionVars, focusVars>>
  /\ UNCHANGED extVars

\* getOrCreateConversation: none found, INSERT a new conversation.
getOrCreateConversation_insert(p) ==
  /\ pc[p] = "goc_insert"
  /\ \E c \in FreeConvIds :
       /\ c = CHOOSE m \in FreeConvIds : \A k \in FreeConvIds : m <= k
       /\ conversations' = InsertConversation(c, KeyType(p), call[p].campaign, NoId)
       /\ call' = [call EXCEPT ![p].conv = c]
  /\ pc' = [pc EXCEPT ![p] = "cm_update"]
  /\ UNCHANGED <<campaigns, proposals, messages, user_sessions,
                 knowledge_base, learnings, summarizeCalls>>
  /\ UNCHANGED actionVars
  /\ UNCHANGED extVars

\* The updates each ContextManager operation hands to updateSession.
SessionUpdates(p) ==
  CASE call[p].op = "setCurrentCampaign" ->
         [currentCampaignId |-> call[p].campaign,
          currentConversationId |-> call[p].conv,
          currentProposalId |-> NoId]
    [] call[p].op = "setCurrentProposal" ->
         [currentProposalId |-> call[p].arg,
          currentConversationId |-> call[p].conv,
          currentCampaignId |-> NoId]
    [] call[p].op = "clearCurrentContext" ->
         [currentCampaignId |-> NoId,
          currentProposalId |-> NoId,
          currentConversationId |-> call[p].conv]

\* await this.updateSession(userId, {...}) ending the ContextManager
\* operation.
focus_updateSession(p) ==
  /\ pc[p] = "cm_update"
  /\ user_sessions' = updateSession(call[p].user, SessionUpdates(p))
  /\ pc' = [pc EXCEPT ![p] = NextPhase(p)]
  /\ call' = [call EXCEPT ![p].phase = @ + 1]
  /\ UNCHANGED <<campaigns, proposals, conversations, messages,
                 knowledge_base, learnings, summarizeCalls>>
  /\ UNCHANGED actionVars
  /\ UNCHANGED extVars

\* The Orchestrator operation returns to its caller.
focus_return(p) ==
  /\ pc[p] = "fs_return"
  /\ pc' = [pc EXCEPT ![p] = "done"]
  /\ call' = [call EXCEPT ![p].result = "ok", ![p].post = "returned",
                          ![p].session = getSession(call[p].user)]
  /\ UNCHANGED <<actionVars, focusVars>>
  /\ UNCHANGED extVars

----
(***************************************************************************)
(* ContextManager called by concurrent workers                             *)
(* (src/modules/context/manager.ts)                                        *)
(***************************************************************************)

\* The keys the callers of getOrCreateConversation pass: ('general'),
\* ('proposal') and ('campaign_analysis', campaignId).
ConvKeys ==
  {<<"general", NoId, NoId>>, <<"proposal", NoId, NoId>>}
    \cup {<<"campaign_analysis", c, NoId>> : c \in CampaignIds}

NoWCall ==
  [op |-> "none", key |-> <<NULL, NoId, NoId>>, arg |-> NoId,
   missed |-> FALSE, found |-> NoId, conv |-> NoId, msgs |-> <<>>,
   prev |-> NoId, fin |-> NoId, campaign |-> NoId]

NoKey == <<NULL, NoId, NoId>>

NoHistory ==
  [key |-> NoKey, returned |-> NoId, finalized |-> NoId, void |-> FALSE]

VoidHistory == [NoHistory EXCEPT !.void = TRUE]

\* Conversation c satisfies the WHERE clause of key k, status aside.
MatchesKey(k, c) ==
  /\ conversations[c].type = k[1]
  /\ k[2] # NoId => conversations[c].campaign_id = k[2]
  /\ k[3] # NoId => conversations[c].proposal_id = k[3]

\* No call of another worker is running while w's call runs.
Alone(w) == \A q \in Workers \ {w} : wpc[q] \in {"idle", "done"}

\* The history after w's getOrCreateConversation(k) returned conversation
\* c: a finalized conversation of the key is no longer the last event of it.
HistoryAfterReturn(w, k, c) ==
  IF Alone(w) /\ ~ history.void
    THEN [key |-> k, returned |-> c,
          finalized |-> IF history.finalized # NoId
                             /\ MatchesKey(k, history.finalized)
                          THEN NoId ELSE history.finalized,
          void |-> FALSE]
    ELSE VoidHistory

\* A worker calls getOrCreateConversation(type, campaignId, proposalId).
goc_begin(w, k) ==
  /\ wpc[w] = "idle"
  /\ Cardinality(FreeConvIds) >
       Cardinality({q \in Workers : wpc[q] \in {"goc_find", "goc_insert"}})
  /\ wpc' = [wpc EXCEPT ![w] = "goc_find"]
  /\ wcall' = [wcall EXCEPT ![w] =
       [NoWCall EXCEPT !.op = "getOrCreateConversation", !.key = k,
                       !.prev = IF Alone(w) /\ history.key = k
                                  THEN history.returned ELSE NoId,
                       !.fin = IF Alone(w) /\ history.finalized # NoId
                                    /\ MatchesKey(k, history.finalized)
                                 THEN history.finalized ELSE NoId]]
  /\ history' = IF Alone(w) THEN history ELSE VoidHistory
  /\ UNCHANGED <<actionVars, focusVars, pc, call>>
  /\ UNCHANGED statVars

\* Mutant: no lookup before create.
goc_find_NoLookup(w) ==
  /\ wpc[w] = "goc_find"
  /\ wpc' = [wpc EXCEPT ![w] = "goc_insert"]
  /\ wcall' = [wcall EXCEPT ![w].missed = TRUE]
  /\ UNCHANGED history
  /\ UNCHANGED <<actionVars, focusVars, pc, call>>
  /\ UNCHANGED statVars

\* SELECT * FROM conversations WHERE type = $1 AND status = 'active'
\* [AND campaign_id = $2] [AND proposal_id = $n] LIMIT 1
goc_find(w) ==
  /\ wpc[w] = "goc_find"
  /\ LET k == wcall[w].key
         found == FindActive(k[1], k[2], k[3])
     IN  IF found # {}
           THEN /\ wpc' = [wpc EXCEPT ![w] = "goc_messages"]
                /\ \E c \in found : wcall' = [wcall EXCEPT ![w].found = c]
           ELSE /\ wpc' = [wpc EXCEPT ![w] = "goc_insert"]
                /\ wcall' = [wcall EXCEPT ![w].missed = TRUE]
  /\ UNCHANGED history
  /\ UNCHANGED <<actionVars, focusVars, pc, call>>
  /\ UNCHANGED statVars

\* existingResult.rows.length > 0: const messages = await
\* this.getConversationMessages(conv.id); return the row with its messages.
goc_messages(w) ==
  /\ wpc[w] = "goc_messages"
  /\ wpc' = [wpc EXCEPT ![w] = "done"]
  /\ wcall' = [wcall EXCEPT ![w].conv = wcall[w].found,
                            ![w].msgs = getConversationMessages(wcall[w].found)]
  /\ history' = HistoryAfterReturn(w, wcall[w].key, wcall[w].found)
  /\ UNCHANGED <<actionVars, focusVars, pc, call>>
  /\ UNCHANGED statVars

\* Mutant: the INSERT is skipped when an active conversation of the key
\* exists by now (get-or-create in one statement).
goc_insert_Atomic(w) ==
  /\ wpc[w] = "goc_insert"
  /\ LET k == wcall[w].key
         found == FindActive(k[1], k[2], k[3])
     IN  IF found # {}
           THEN /\ \E c \in found :
                     /\ wcall' = [wcall EXCEPT ![w].conv = c, ![w].msgs = messages[c]]
                     /\ history' = HistoryAfterReturn(w, k, c)
                /\ conversations' = conversations
           ELSE \E c \in FreeConvIds :
                  /\ c = CHOOSE m \in FreeConvIds : \A j \in FreeConvIds : m <= j
                  /\ conversations' = InsertConversation(c, k[1], k[2], k[3])
                  /\ wcall' = [wcall EXCEPT ![w].conv = c, ![w].msgs = <<>>]
                  /\ history' = HistoryAfterReturn(w, k, c)
  /\ wpc' = [wpc EXCEPT ![w] = "done"]
  /\ UNCHANGED <<campaigns, proposals, messages, user_sessions,
                 knowledge_base, learnings, summarizeCalls>>
  /\ UNCHANGED <<actionVars, pc, call>>
  /\ UNCHANGED statVars

\* INSERT INTO conversations (type, campaign_id, proposal_id) VALUES
\* ($1, $2, $3) RETURNING *; return the new row with messages: [].
goc_insert(w) ==
  /\ wpc[w] = "goc_insert"
  /\ \E c \in FreeConvIds :
       /\ c = CHOOSE m \in FreeConvIds : \A j \in FreeConvIds : m <= j
       /\ conversations' =
            InsertConversation(c, wcall[w].key[1], wcall[w].key[2], wcall[w].key[3])
       /\ wcall' = [wcall EXCEPT ![w].conv = c, ![w].msgs = <<>>]
       /\ history' = HistoryAfterReturn(w, wcall[w].key, c)
  /\ wpc' = [wpc EXCEPT ![w] = "done"]
  /\ UNCHANGED <<campaigns, proposals, messages, user_sessions,
                 knowledge_base, learnings, summarizeCalls>>
  /\ UNCHANGED <<actionVars, pc, call>>
  /\ UNCHANGED statVars

\* A worker calls finalizeConversation(id, summary) on a stored
\* conversation: one UPDATE. The history forgets what was returned before
\* and notes the keys whose active conversation was just archived.
cm_finalizeConversation(w, id) ==
  /\ wpc[w] = "idle"
  /\ conversations[id] # NoConversation
  /\ conversations' = finalizeConversation(id)
  /\ wpc' = [wpc EXCEPT ![w] = "done"]
  /\ wcall' = [wcall EXCEPT ![w] =
       [NoWCall EXCEPT !.op = "finalizeConversation", !.arg = id]]
  /\ history' =
       IF Alone(w) /\ ~ history.void
         THEN [key |-> NoKey, returned |-> NoId,
               finalized |-> IF conversations[id].status = "active"
                               THEN id ELSE history.finalized,
               void |-> FALSE]
         ELSE VoidHistory
  /\ UNCHANGED <<campaigns, proposals, messages, user_sessions,
                 knowledge_base, learnings, summarizeCalls>>
  /\ UNCHANGED <<actionVars, pc, call>>
  /\ UNCHANGED statVars

\* The promise of the worker's call settles.
worker_settle(w) ==
  /\ wpc[w] = "done"
  /\ wpc' = [wpc EXCEPT ![w] = "idle"]
  /\ wcall' = [wcall EXCEPT ![w] = NoWCall]
  /\ UNCHANGED history
  /\ UNCHANGED <<actionVars, focusVars, pc, call>>
  /\ UNCHANGED statVars

----
(***************************************************************************)
(* Statistics jobs: Orchestrator.saveStats, campaignsRepo.upsertFromYandex *)
(* and dailyStatsRepo.upsert (src/database/repositories/dailyStats.ts)     *)
(***************************************************************************)

\* SQL NULL / undefined in a numeric column or field.
NullNum == -1

\* The figures of one day of one campaign as the platform reports them: a
\* day without conversions and without ctr (NullNum), and a day with both.
StatFigures ==
  { [impressions |-> 0, clicks |-> 0, cost |-> 0, conversions |-> 0, ctr |-> NullNum],
    [impressions |-> 100, clicks |-> 10, cost |-> 60, conversions |-> 2, ctr |-> 10] }

NoInput == [campaign_id |-> NoId, stat_date |-> 0]

\* const ctr = input.ctr ?? (impressions > 0 ? clicks / impressions * 100 : 0)
CtrOf(f) ==
  IF f.ctr # NullNum THEN f.ctr
  ELSE IF f.impressions > 0 THEN (f.clicks * 100) \div f.impressions ELSE 0

\* const cpa = input.cpa ?? (conversions > 0 ? cost / conversions : null);
\* saveStats passes no cpa.
CpaOf(f) == IF f.conversions > 0 THEN f.cost \div f.conversions ELSE NullNum

\* The columns an upsert of figures f for (campaign, date) writes.
StatColumns(campaign, date, f) ==
  [campaign_id |-> campaign, stat_date |-> date,
   impressions |-> f.impressions, clicks |-> f.clicks, cost |-> f.cost,
   conversions |-> f.conversions, cpa |-> CpaOf(f), ctr |-> CtrOf(f)]

Conflicting(campaign, date) ==
  {r \in daily_stats : r.campaign_id = campaign /\ r.stat_date = date}

\* Mutant: a plain INSERT, no ON CONFLICT clause and no unique constraint.
upsert_PlainInsert(campaign, date, f) ==
  daily_stats \cup
    {[id |-> Cardinality(Conflicting(campaign, date)) + 1, cols |-> StatColumns(campaign, date, f),
      campaign_id |-> campaign, stat_date |-> date]}

\* Mutant: ON CONFLICT (campaign_id, stat_date) DO NOTHING.
upsert_DoNothing(campaign, date, f) ==
  IF Conflicting(campaign, date) # {} THEN daily_stats
  ELSE daily_stats \cup
         {[id |-> Cardinality(Conflicting(campaign, date)) + 1,
           cols |-> StatColumns(campaign, date, f),
           campaign_id |-> campaign, stat_date |-> date]}

\* INSERT INTO daily_stats (...) VALUES (...) ON CONFLICT (campaign_id,
\* stat_date) DO UPDATE SET impressions = EXCLUDED.impressions, ...: the
\* conflicting row keeps its id and takes the new columns, else a row is
\* inserted under a fresh id (ids are numbered per (campaign, date)).
upsert(campaign, date, f) ==
  IF Conflicting(campaign, date) # {}
    THEN {IF r \in Conflicting(campaign, date)
            THEN [r EXCEPT !.cols = StatColumns(campaign, date, f)] ELSE r :
          r \in daily_stats}
    ELSE daily_stats \cup
           {[id |-> Cardinality(Conflicting(campaign, date)) + 1,
             cols |-> StatColumns(campaign, date, f),
             campaign_id |-> campaign, stat_date |-> date]}

\* campaignsRepo.upsertFromYandex(yandexId, name, 'active') RETURNING *: the
\* id of the campaign row of that yandex_id (the name and status columns it
\* rewrites are not part of the rows modelled here).
upsertFromYandex(yandexId) ==
  (CHOOSE r \in campaigns : r.yandex_id = yandexId).id

\* saveStats(stats) with a list that is not empty: the loop takes its
\* first entry. What an entry holds is fixed by the caller and depends on
\* nothing in the store, so each field is drawn where the loop first reads
\* it.
saveStats_begin(w) ==
  /\ wpc[w] = "idle"
  /\ wpc' = [wpc EXCEPT ![w] = "ss_campaign"]
  /\ wcall' = [wcall EXCEPT ![w] = [NoWCall EXCEPT !.op = "saveStats"]]
  /\ UNCHANGED <<history, statVars>>
  /\ UNCHANGED <<actionVars, focusVars, pc, call>>

\* const campaign = await campaignsRepo.upsertFromYandex(stat.campaignId,
\*   stat.campaignName, 'active')
saveStats_campaign(w, campaignId) ==
  /\ wpc[w] = "ss_campaign"
  /\ wpc' = [wpc EXCEPT ![w] = "ss_stat"]
  /\ wcall' = [wcall EXCEPT ![w].campaign = upsertFromYandex(campaignId)]
  /\ UNCHANGED <<history, statVars>>
  /\ UNCHANGED <<actionVars, focusVars, pc, call>>

\* await dailyStatsRepo.upsert({campaign_id: campaign.id, stat_date:
\* stat.date, ...}); then the next entry of the list, or the end of it.
saveStats_upsert(w, date, f) ==
  /\ wpc[w] = "ss_stat"
  /\ daily_stats' = upsert(wcall[w].campaign, date, f)
  /\ applied' = [applied EXCEPT ![<<wcall[w].campaign, date>>] =
       StatColumns(wcall[w].campaign, date, f)]
  /\ \/ /\ wpc' = [wpc EXCEPT ![w] = "done"]
        /\ wcall' = [wcall EXCEPT ![w].campaign = NoId]
     \/ /\ wpc' = [wpc EXCEPT ![w] = "ss_campaign"]
        /\ wcall' = [wcall EXCEPT ![w].campaign = NoId]
  /\ UNCHANGED history
  /\ UNCHANGED <<actionVars, focusVars, pc, call>>

----
(***************************************************************************)
(* Question handling: ContextManager.detectContext,                        *)
(* buildContextForQuestion (src/modules/context/manager.ts) and            *)
(* Orchestrator.handleUserQuestion (src/modules/orchestrator/index.ts)     *)
(***************************************************************************)

\* Text is a sequence of characters.
LowerOf(ch) ==
  CASE ch = "A" -> "a" [] ch = "B" -> "b" [] ch = "C" -> "c"
    [] ch = "P" -> "p" [] ch = "Y" -> "y" [] ch = "R" -> "r"
    [] ch = "O" -> "o" [] ch = "I" -> "i" [] OTHER -> ch

Lower(t) == [i \in 1..Len(t) |-> LowerOf(t[i])]

\* t ILIKE '%' || h || '%': h occurs in t, case ignored.
ILike(t, h) ==
  \E i \in 0..(Len(t) - Len(h)) :
    SubSeq(Lower(t), i + 1, i + Len(h)) = Lower(h)

DigitChars == <<"0", "1", "2", "3", "4", "5", "6", "7", "8", "9">>

\* The decimal text of a yandex_id (column VARCHAR(50)).
RECURSIVE ToText(_)
ToText(n) ==
  IF n < Len(DigitChars) THEN <<DigitChars[n + 1]>>
  ELSE ToText(n \div Len(DigitChars)) \o <<DigitChars[(n % Len(DigitChars)) + 1]>>

\* The rows a query with LIMIT n returns out of the rows S its WHERE clause
\* selects: all of them, or any n of them (no ORDER BY).
Limit(S, n) ==
  IF Cardinality(S) <= n THEN {S} ELSE {T \in SUBSET S : Cardinality(T) = n}

\* The campaigns a store may hold: the first n of a catalogue.
CampaignName(i) ==
  CASE i = 1 -> <<"A", "b">>
    [] i = 2 -> <<"a", "c">>
    [] i = 3 -> <<"c">>
    [] OTHER -> [j \in 1..(i - 3) |-> "a"]

CampaignStatus(i) == IF i = 2 THEN "paused" ELSE "active"

CatalogueOf(n) ==
  {[id |-> i, yandex_id |-> YandexIdOf(i), name |-> CampaignName(i),
    status |-> CampaignStatus(i)] : i \in 1..n}

\* The proposals a store may hold: the first m of a catalogue.
ProposalCatalogue ==
  << [title |-> <<"p", "x">>, status |-> "draft"],
     [title |-> <<"P", "y">>, status |-> "discussing"],
     [title |-> <<"p", "z">>, status |-> "rejected"] >>

CatalogueIds == 1..Len(ProposalCatalogue)

ProposalsOf(m) ==
  [i \in CatalogueIds |->
     IF i <= m
       THEN [status |-> ProposalCatalogue[i].status, conversation_id |-> NoId,
             title |-> ProposalCatalogue[i].title]
       ELSE NoProposal]

\* What ai.classify may return: campaign and proposal are absent (empty)
\* or a text, confidence is a share in percent.
CampaignHints ==
  {<<>>, <<"a">>, <<"B">>, <<"c">>, <<"z">>, ToText(YandexIdOf(1))}

ProposalHints == {<<>>, <<"p">>, <<"y">>, <<"z">>}

Confidences == {0, 49, 50, 100}

NoClassification == [campaign |-> <<>>, proposal |-> <<>>, confidence |-> 0]

Classifications ==
  [campaign : CampaignHints, proposal : ProposalHints, confidence : Confidences]

\* ContextDetectionResult; an absent field is NoId, an empty text or an
\* empty list.
NoDetected ==
  [campaignId |-> NoId, campaignName |-> <<>>,
   proposalId |-> NoId, proposalTitle |-> <<>>,
   needsClarification |-> FALSE,
   suggestedCampaigns |-> {}, suggestedProposals |-> {}]

\* WHERE name ILIKE '%hint%' OR yandex_id = hint
CampaignMatches(hint) ==
  {r \in campaigns : ILike(r.name, hint) \/ ToText(r.yandex_id) = hint}

\* WHERE title ILIKE '%hint%' AND status != 'rejected'
ProposalMatches(hint) ==
  {i \in DOMAIN proposals :
     /\ proposals[i] # NoProposal
     /\ ILike(proposals[i].title, hint)
     /\ proposals[i].status # "rejected"}

\* WHERE status = 'active'
ActiveCampaigns == {r \in campaigns : r.status = "active"}

\* rows.map((r) => ({id: r.yandex_id, name: r.name}))
CampaignSuggestions(rows) == {[id |-> r.yandex_id, name |-> r.name] : r \in rows}

\* rows.map((r) => ({id: r.id, title: r.title}))
ProposalSuggestions(rows) == {[id |-> i, title |-> proposals[i].title] : i \in rows}

\* Locals of a handleUserQuestion call. pre is the store as the call found
\* it; campaignRows, proposalRows and fallbackRows are the rows the three
\* queries of detectContext returned, fallback tells whether the third ran.
NoQuestion ==
  [op |-> "none", user |-> 0, result |-> "none", failed |-> "none",
   classification |-> NoClassification,
   detected |-> NoDetected, returned |-> FALSE,
   campaignRows |-> {}, proposalRows |-> {}, fallbackRows |-> {},
   fallback |-> FALSE,
   session |-> NoSessionContext, campaignContext |-> NoId,
   conv |-> NoId, answered |-> 0,
   pre |-> [conversations |-> <<>>, messages |-> <<>>, user_sessions |-> <<>>]]

\* handleUserQuestion(question, userId) is called.
hq_enter(p, u) ==
  /\ pc[p] = "idle"
  /\ TotalMessages < MaxMsgs
  /\ FreeConvIds # {}
  /\ pc' = [pc EXCEPT ![p] = "hq_classify"]
  /\ call' = Begin(p, [NoQuestion EXCEPT
       !.op = "handleUserQuestion", !.user = u,
       !.pre = [conversations |-> conversations, messages |-> messages,
                user_sessions |-> user_sessions]])
  /\ UNCHANGED <<actionVars, focusVars>>
  /\ UNCHANGED extVars

\* handleUserQuestion called while no other call is running.
hq_begin(p, u) ==
  /\ AllIdle
  /\ hq_enter(p, u)

\* The call throws: catch (error) { logger.error(...); throw error; }
Throw(p, step) ==
  /\ pc' = [pc EXCEPT ![p] = "done"]
  /\ call' = [call EXCEPT ![p].result = "error", ![p].failed = step]

\* const classification = await this.ai.classify(question): it resolves to
\* a classification or rejects.
hq_classify(p) ==
  /\ pc[p] = "hq_classify"
  /\ \/ Throw(p, "classify")
     \/ \E c \in Classifications :
          /\ pc' = [pc EXCEPT ![p] = "dc_campaign"]
          /\ call' = [call EXCEPT ![p].classification = c]
  /\ UNCHANGED <<actionVars, focusVars>>
  /\ UNCHANGED extVars

\* detectContext: if (classificationResult.campaign) { SELECT id,
\* yandex_id, name FROM campaigns WHERE name ILIKE $1 OR yandex_id = $2
\* LIMIT 5 }; one row binds campaignId = yandex_id and campaignName, more
\* rows set needsClarification and suggestedCampaigns.
dc_campaign(p) ==
  /\ pc[p] = "dc_campaign"
  /\ LET hint == call[p].classification.campaign IN
       IF hint = <<>>
         THEN call' = call
         ELSE \E rows \in Limit(CampaignMatches(hint), SuggestLimit) :
                call' = [call EXCEPT
                  ![p].campaignRows = rows,
                  ![p].detected =
                     IF Cardinality(rows) = 1
                       THEN LET r == CHOOSE x \in rows : TRUE IN
                            [@ EXCEPT !.campaignId = r.yandex_id,
                                      !.campaignName = r.name]
                     ELSE IF Cardinality(rows) > 1
                       THEN [@ EXCEPT !.needsClarification = TRUE,
                                      !.suggestedCampaigns = CampaignSuggestions(rows)]
                     ELSE @]
  /\ pc' = [pc EXCEPT ![p] = "dc_proposal"]
  /\ UNCHANGED <<actionVars, focusVars>>
  /\ UNCHANGED extVars

\* detectContext: if (classificationResult.proposal) { SELECT id, title
\* FROM proposals WHERE title ILIKE $1 AND status != 'rejected' LIMIT 5 };
\* one row binds proposalId and proposalTitle, more rows set
\* needsClarification and suggestedProposals.
dc_proposal(p) ==
  /\ pc[p] = "dc_proposal"
  /\ LET hint == call[p].classification.proposal IN
       IF hint = <<>>
         THEN call' = call
         ELSE \E rows \in Limit(ProposalMatches(hint), SuggestLimit) :
                call' = [call EXCEPT
                  ![p].proposalRows = rows,
                  ![p].detected =
                     IF Cardinality(rows) = 1
                       THEN LET i == CHOOSE x \in rows : TRUE IN
                            [@ EXCEPT !.proposalId = i,
                                      !.proposalTitle = proposals[i].title]
                     ELSE IF Cardinality(rows) > 1
                       THEN [@ EXCEPT !.needsClarification = TRUE,
                                      !.suggestedProposals = ProposalSuggestions(rows)]
                     ELSE @]
  /\ pc' = [pc EXCEPT ![p] = "dc_fallback"]
  /\ UNCHANGED <<actionVars, focusVars>>
  /\ UNCHANGED extVars

\* Mutant: the clarification flag is not looked at.
AfterDetect_NoCheck(p, c) ==
  /\ pc' = [pc EXCEPT ![p] = "bc_session"]
  /\ call' = [call EXCEPT ![p] = [c EXCEPT !.returned = TRUE]]

\* handleUserQuestion once detectContext returned (locals c): if
\* (detectedContext.needsClarification) return {needsClarification: true,
\* message, campaigns, proposals}; else go on to buildContextForQuestion.
AfterDetect(p, c) ==
  IF c.detected.needsClarification
    THEN /\ pc' = [pc EXCEPT ![p] = "done"]
         /\ call' = [call EXCEPT ![p] =
              [c EXCEPT !.returned = TRUE, !.result = "clarification"]]
    ELSE /\ pc' = [pc EXCEPT ![p] = "bc_session"]
         /\ call' = [call EXCEPT ![p] = [c EXCEPT !.returned = TRUE]]

\* Mutant: the menu of active campaigns is offered at any confidence.
dc_fallback_AnyConfidence(p) ==
  /\ pc[p] = "dc_fallback"
  /\ LET d == call[p].detected IN
       IF d.campaignId = NoId /\ d.proposalId = NoId
         THEN \E rows \in Limit(ActiveCampaigns, SuggestLimit) :
                AfterDetect(p, [call[p] EXCEPT
                  !.fallback = TRUE,
                  !.fallbackRows = rows,
                  !.detected =
                     IF rows # {}
                       THEN [@ EXCEPT !.needsClarification = TRUE,
                                      !.suggestedCampaigns = CampaignSuggestions(rows)]
                       ELSE @])
         ELSE AfterDetect(p, call[p])
  /\ UNCHANGED <<actionVars, focusVars>>
  /\ UNCHANGED extVars

\* detectContext: if (!result.campaignId && !result.proposalId &&
\* classificationResult.confidence < 0.5) { SELECT yandex_id, name FROM
\* campaigns WHERE status = 'active' LIMIT 5 }; any row sets
\* needsClarification and suggestedCampaigns; return result.
dc_fallback(p) ==
  /\ pc[p] = "dc_fallback"
  /\ LET d == call[p].detected IN
       IF d.campaignId = NoId /\ d.proposalId = NoId
            /\ call[p].classification.confidence < LowConfidence
         THEN \E rows \in Limit(ActiveCampaigns, SuggestLimit) :
                AfterDetect(p, [call[p] EXCEPT
                  !.fallback = TRUE,
                  !.fallbackRows = rows,
                  !.detected =
                     IF rows # {}
                       THEN [@ EXCEPT !.needsClarification = TRUE,
                                      !.suggestedCampaigns = CampaignSuggestions(rows)]
                       ELSE @])
         ELSE AfterDetect(p, call[p])
  /\ UNCHANGED <<actionVars, focusVars>>
  /\ UNCHANGED extVars

\* buildContextForQuestion: const session = await this.getSession(userId)
\* (and getGlobalContext, which reads).
bc_session(p) ==
  /\ pc[p] = "bc_session"
  /\ user_sessions' = getSession_upsert(call[p].user)
  /\ call' = [call EXCEPT ![p].session = getSession(call[p].user)]
  /\ pc' = [pc EXCEPT ![p] = "bc_campaign"]
  /\ UNCHANGED <<campaigns, proposals, conversations, messages,
                 knowledge_base, learnings, summarizeCalls>>
  /\ UNCHANGED actionVars
  /\ UNCHANGED extVars

\* getCampaignContext(campaignId): SELECT * FROM campaigns WHERE id = $1 OR
\* yandex_id = $1; no row -> null, else {campaignId: campaign.yandex_id, ..}
getCampaignContext(campaignId) ==
  LET rows == {r \in campaigns : r.id = campaignId \/ r.yandex_id = campaignId}
  IN  IF rows = {} THEN NoId ELSE (CHOOSE r \in rows : TRUE).yandex_id

\* buildContextForQuestion: campaignId = detectedContext.campaignId ||
\* session.currentCampaignId; campaignContext = the campaign context when
\* there is one (getProposalContext and the conversation history read).
bc_campaign(p) ==
  /\ pc[p] = "bc_campaign"
  /\ LET campaignId == IF call[p].detected.campaignId # NoId
                         THEN call[p].detected.campaignId
                         ELSE call[p].session.currentCampaignId
     IN  call' = [call EXCEPT ![p].campaignContext =
                    IF campaignId # NoId THEN getCampaignContext(campaignId)
                    ELSE NoId]
  /\ pc' = [pc EXCEPT ![p] = "hq_goc_find"]
  /\ UNCHANGED <<actionVars, focusVars>>
  /\ UNCHANGED extVars

\* conversations.campaign_id is a UUID column: a yandex_id is no value of
\* it, and a statement given one fails (invalid input syntax for type
\* uuid).
IsUuid(x) == x < YandexIdOf(0)

\* getOrCreateConversation(builtContext.campaignContext ?
\* 'campaign_analysis' : 'general', builtContext.campaignContext?.campaignId):
\* the lookup SELECT ... LIMIT 1.
hq_goc_find(p) ==
  /\ pc[p] = "hq_goc_find"
  /\ LET ctx == call[p].campaignContext
         type == IF ctx # NoId THEN "campaign_analysis" ELSE "general"
         found == FindActive(type, ctx, NoId)
     IN  IF ctx # NoId /\ ~ IsUuid(ctx)
           THEN Throw(p, "getOrCreateConversation")
         ELSE IF found # {}
           THEN /\ pc' = [pc EXCEPT ![p] = "hq_goc_messages"]
                /\ \E c \in found : call' = [call EXCEPT ![p].conv = c]
         ELSE /\ pc' = [pc EXCEPT ![p] = "hq_goc_insert"]
              /\ call' = call
  /\ UNCHANGED <<actionVars, focusVars>>
  /\ UNCHANGED extVars

\* getOrCreateConversation: the row exists, its messages are read.
hq_goc_messages(p) ==
  /\ pc[p] = "hq_goc_messages"
  /\ pc' = [pc EXCEPT ![p] = "hq_user_msg"]
  /\ call' = call
  /\ UNCHANGED <<actionVars, focusVars>>
  /\ UNCHANGED extVars

\* getOrCreateConversation: no row, INSERT INTO conversations.
hq_goc_insert(p) ==
  /\ pc[p] = "hq_goc_insert"
  /\ LET ctx == call[p].campaignContext
         c == CHOOSE m \in FreeConvIds : \A j \in FreeConvIds : m <= j
     IN  /\ conversations' =
              InsertConversation(c, IF ctx # NoId THEN "campaign_analysis"
                                    ELSE "general", ctx, NoId)
         /\ call' = [call EXCEPT ![p].conv = c]
  /\ pc' = [pc EXCEPT ![p] = "hq_user_msg"]
  /\ UNCHANGED <<campaigns, proposals, messages, user_sessions,
                 knowledge_base, learnings, summarizeCalls>>
  /\ UNCHANGED actionVars
  /\ UNCHANGED extVars

\* await this.context.addMessage(conversation.id, 'user', question)
hq_user_msg(p) ==
  /\ pc[p] = "hq_user_msg"
  /\ messages' = [messages EXCEPT ![call[p].conv] = Append(@, "user")]
  /\ pc' = [pc EXCEPT ![p] = "hq_answer"]
  /\ call' = call
  /\ UNCHANGED <<campaigns, proposals, conversations, user_sessions,
                 knowledge_base, learnings, summarizeCalls>>
  /\ UNCHANGED actionVars
  /\ UNCHANGED extVars

\* Mutant: a rejected answer is swallowed and an empty reply stored.
hq_answer_Swallow(p) ==
  /\ pc[p] = "hq_answer"
  /\ \/ /\ pc' = [pc EXCEPT ![p] = "hq_assistant_msg"]
        /\ call' = [call EXCEPT ![p].failed = "answer"]
     \/ /\ pc' = [pc EXCEPT ![p] = "hq_assistant_msg"]
        /\ call' = [call EXCEPT ![p].answered = 1]
  /\ UNCHANGED <<actionVars, focusVars>>
  /\ UNCHANGED extVars

\* prepareContextData reads campaigns and daily_stats; const response =
\* await this.ai.answerQuestion(question, campaignData, aiContext): it
\* resolves to an answer or rejects.
hq_answer(p) ==
  /\ pc[p] = "hq_answer"
  /\ \/ Throw(p, "answer")
     \/ /\ pc' = [pc EXCEPT ![p] = "hq_assistant_msg"]
        /\ call' = [call EXCEPT ![p].answered = 1]
  /\ UNCHANGED <<actionVars, focusVars>>
  /\ UNCHANGED extVars

\* Mutant: the session pointer is set where the reply should be stored.
hq_assistant_msg_PointerFirst(p) ==
  /\ pc[p] = "hq_assistant_msg"
  /\ user_sessions' =
       updateSession(call[p].user, [currentConversationId |-> call[p].conv])
  /\ pc' = [pc EXCEPT ![p] = "hq_update"]
  /\ call' = call
  /\ UNCHANGED <<campaigns, proposals, conversations, messages,
                 knowledge_base, learnings, summarizeCalls>>
  /\ UNCHANGED actionVars
  /\ UNCHANGED extVars

\* await this.context.addMessage(conversation.id, 'assistant',
\* response.answer)
hq_assistant_msg(p) ==
  /\ pc[p] = "hq_assistant_msg"
  /\ messages' = [messages EXCEPT ![call[p].conv] = Append(@, "assistant")]
  /\ pc' = [pc EXCEPT ![p] = "hq_update"]
  /\ call' = call
  /\ UNCHANGED <<campaigns, proposals, conversations, user_sessions,
                 knowledge_base, learnings, summarizeCalls>>
  /\ UNCHANGED actionVars
  /\ UNCHANGED extVars

\* await this.context.updateSession(userId, {currentConversationId:
\* conversation.id}); return response.answer
hq_update(p) ==
  /\ pc[p] = "hq_update"
  /\ user_sessions' =
       updateSession(call[p].user, [currentConversationId |-> call[p].conv])
  /\ pc' = [pc EXCEPT ![p] = "done"]
  /\ call' = [call EXCEPT ![p].result = "answer"]
  /\ UNCHANGED <<campaigns, proposals, conversations, messages,
                 knowledge_base, learnings, summarizeCalls>>
  /\ UNCHANGED actionVars
  /\ UNCHANGED extVars

----
(***************************************************************************)
(* Orchestrator.approveProposal (src/modules/orchestrator/index.ts) over   *)
(* proposalsRepo.getById / update and campaignsRepo.upsertFromYandex       *)
(***************************************************************************)

ProposalStatus ==
  {"draft", "discussing", "approved", "rejected", "implemented"}

\* t.includes(h)
Includes(t, h) ==
  \E i \in 0..(Len(t) - Len(h)) : SubSeq(t, i + 1, i + Len(h)) = h

\* structure.strategy.name of a plan: absent (empty), texts holding one of
\* the words the mapping looks for, and a text holding none.
StrategyNames ==
  { <<>>,
    <<"c", "p", "a">>,
    <<"R", "O", "I">>,
    <<"c", "o", "n", "v", "e", "r", "s", "i", "o", "n">>,
    <<"m", "a", "n", "u", "a", "l">>,
    <<"f", "o", "o">> }

\* The words of the mapping and the platform strategy of each, in the
\* order the code tries them.
StrategyWords ==
  << [word |-> <<"c", "p", "a">>, type |-> "AVERAGE_CPA"],
     [word |-> <<"r", "o", "i">>, type |-> "AVERAGE_ROI"],
     [word |-> <<"c", "o", "n", "v", "e", "r", "s", "i", "o", "n">>,
      type |-> "WB_MAXIMUM_CONVERSION_RATE"],
     [word |-> <<"m", "a", "n", "u", "a", "l">>, type |-> "MANUAL_CPM"] >>

\* let strategyType = 'WB_MAXIMUM_CLICKS'; stratName =
\* structure.strategy.name?.toLowerCase() || ''; the first word of the
\* mapping that stratName includes decides, else the initial value stays.
StrategyTypeOf(name) ==
  LET stratName == Lower(name)
      hits == {k \in DOMAIN StrategyWords :
                 Includes(stratName, StrategyWords[k].word)}
  IN  IF hits = {} THEN "WB_MAXIMUM_CLICKS"
      ELSE StrategyWords[CHOOSE k \in hits : \A m \in hits : k <= m].type

\* proposals.instruction_file: NULL, text that is not JSON, JSON without
\* campaignStructure, JSON whose campaignStructure has no strategy, JSON
\* with a strategy of some name.
InstructionFiles ==
  [shape : {NULL, "not json", "no structure", "no strategy"}, name : {<<>>}]
    \cup [shape : {"strategy"}, name : StrategyNames]

\* The rows a stored proposal may be.
ProposalRows ==
  [status : ProposalStatus, conversation_id : {NoId},
   title : {<<"p", "x">>}, instruction_file : InstructionFiles]

\* Locals of an approveProposal call; pre is the store as the call found
\* it, created counts its yandex.createCampaign calls, logged its entries
\* in the experiments log, strategyType is the strategy it asks the
\* platform for.
NoApproval ==
  [op |-> "none", arg |-> NoId, result |-> "none", failed |-> "none",
   proposal |-> NoProposal, created |-> 0, yandexCampaignId |-> NoId,
   logged |-> 0, strategyType |-> NULL,
   pre |-> [proposals |-> <<>>, campaigns |-> {}]]

\* approveProposal(proposalId) is called.
approveProposal_enter(p, id) ==
  /\ pc[p] = "idle"
  /\ pc' = [pc EXCEPT ![p] = "ap_getById"]
  /\ call' = Begin(p, [NoApproval EXCEPT
       !.op = "approveProposal", !.arg = id,
       !.pre = [proposals |-> proposals, campaigns |-> campaigns]])
  /\ UNCHANGED <<actionVars, focusVars>>
  /\ UNCHANGED extVars

\* approveProposal called while no other call is running.
approveProposal_begin(p, id) ==
  /\ AllIdle
  /\ approveProposal_enter(p, id)

\* proposalsRepo.getById: SELECT * FROM proposals WHERE id = $1;
\* result.rows[0] || null.
getById(id) == IF id \in DOMAIN proposals THEN proposals[id] ELSE NoProposal

\* Mutant: the status of the proposal is not looked at.
approveProposal_getById_AnyStatus(p) ==
  /\ pc[p] = "ap_getById"
  /\ LET proposal == getById(call[p].arg) IN
       IF proposal = NoProposal
         THEN Throw(p, "Proposal not found")
       ELSE IF proposal.instruction_file.shape = "not json"
         THEN Throw(p, "JSON.parse")
       ELSE IF proposal.instruction_file.shape # "strategy"
         THEN Throw(p, "Invalid proposal structure")
       ELSE /\ pc' = [pc EXCEPT ![p] = "ap_createCampaign"]
            /\ call' = [call EXCEPT
                 ![p].proposal = proposal,
                 ![p].strategyType =
                    StrategyTypeOf(proposal.instruction_file.name)]
  /\ UNCHANGED <<actionVars, focusVars>>
  /\ UNCHANGED extVars

\* const proposal = await proposalsRepo.getById(proposalId); no row ->
\* throw 'Proposal not found'; status other than draft and discussing ->
\* throw 'Proposal is in <status> state'; JSON.parse(instruction_file ||
\* '{}') may throw; no campaignStructure or no strategy in it -> throw
\* 'Invalid proposal structure: missing strategy'; the strategy name is
\* mapped to a platform strategy.
approveProposal_getById(p) ==
  /\ pc[p] = "ap_getById"
  /\ LET proposal == getById(call[p].arg) IN
       IF proposal = NoProposal
         THEN Throw(p, "Proposal not found")
       ELSE IF proposal.status # "draft" /\ proposal.status # "discussing"
         THEN Throw(p, "Proposal is in state")
       ELSE IF proposal.instruction_file.shape = "not json"
         THEN Throw(p, "JSON.parse")
       ELSE IF proposal.instruction_file.shape # "strategy"
         THEN Throw(p, "Invalid proposal structure")
       ELSE /\ pc' = [pc EXCEPT ![p] = "ap_createCampaign"]
            /\ call' = [call EXCEPT
                 ![p].proposal = proposal,
                 ![p].strategyType =
                    StrategyTypeOf(proposal.instruction_file.name)]
  /\ UNCHANGED <<actionVars, focusVars>>
  /\ UNCHANGED extVars

\* The id the platform gives the next campaign it creates.
NextYandexId == YandexIdOf(Cardinality(campaigns) + 1)

\* Mutant: a rejected createCampaign is swallowed and the proposal marked.
approveProposal_createCampaign_Swallow(p) ==
  /\ pc[p] = "ap_createCampaign"
  /\ \/ /\ pc' = [pc EXCEPT ![p] = "ap_update"]
        /\ call' = [call EXCEPT ![p].failed = "createCampaign",
                                ![p].created = @ + 1]
     \/ /\ pc' = [pc EXCEPT ![p] = "ap_upsert"]
        /\ call' = [call EXCEPT ![p].yandexCampaignId = NextYandexId,
                                ![p].created = @ + 1]
  /\ UNCHANGED <<actionVars, focusVars>>
  /\ UNCHANGED extVars

\* const yandexCampaignId = await this.yandex.createCampaign(title, date,
\* budget / 7, strategyType): the platform creates the campaign or the call
\* rejects.
approveProposal_createCampaign(p) ==
  /\ pc[p] = "ap_createCampaign"
  /\ \/ /\ pc' = [pc EXCEPT ![p] = "done"]
        /\ call' = [call EXCEPT ![p].result = "error",
                                ![p].failed = "createCampaign",
                                ![p].created = @ + 1]
     \/ /\ pc' = [pc EXCEPT ![p] = "ap_upsert"]
        /\ call' = [call EXCEPT ![p].yandexCampaignId = NextYandexId,
                                ![p].created = @ + 1]
  /\ UNCHANGED <<actionVars, focusVars>>
  /\ UNCHANGED extVars

\* await campaignsRepo.upsertFromYandex(yandexCampaignId, proposal.title,
\* 'active'): INSERT INTO campaigns (yandex_id, name, status) ... ON
\* CONFLICT (yandex_id) DO UPDATE SET name, status.
approveProposal_upsert(p) ==
  /\ pc[p] = "ap_upsert"
  /\ LET y == call[p].yandexCampaignId
         old == {r \in campaigns : r.yandex_id = y}
     IN  campaigns' =
           IF old = {}
             THEN campaigns \cup
                    {[id |-> Cardinality(campaigns) + 1, yandex_id |-> y,
                      name |-> call[p].proposal.title, status |-> "active"]}
             ELSE (campaigns \ old) \cup
                    {[r EXCEPT !.name = call[p].proposal.title,
                               !.status = "active"] : r \in old}
  /\ pc' = [pc EXCEPT ![p] = "ap_update"]
  /\ call' = call
  /\ UNCHANGED <<proposals, conversations, messages, user_sessions,
                 knowledge_base, learnings, summarizeCalls>>
  /\ UNCHANGED actionVars
  /\ UNCHANGED extVars

\* await campaignsRepo.upsertFromYandex(...) rejects (the store cannot be
\* reached): the catch block rethrows, the proposal is left as it was.
approveProposal_upsert_rejects(p) ==
  /\ pc[p] = "ap_upsert"
  /\ Throw(p, "upsertFromYandex")
  /\ UNCHANGED <<actionVars, focusVars>>
  /\ UNCHANGED extVars

\* await proposalsRepo.update(proposal.id, {status: 'implemented'})
approveProposal_update(p) ==
  /\ pc[p] = "ap_update"
  /\ proposals' = [proposals EXCEPT ![call[p].arg].status = "implemented"]
  /\ pc' = [pc EXCEPT ![p] = "ap_log"]
  /\ call' = call
  /\ UNCHANGED <<campaigns, conversations, messages, user_sessions,
                 knowledge_base, learnings, summarizeCalls>>
  /\ UNCHANGED actionVars
  /\ UNCHANGED extVars

\* await loader.saveExperiment(...): the decision is written to the
\* experiments log, or the write fails and the call throws.
approveProposal_log(p) ==
  /\ pc[p] = "ap_log"
  /\ \/ Throw(p, "saveExperiment")
     \/ /\ pc' = [pc EXCEPT ![p] = "done"]
        /\ call' = [call EXCEPT ![p].result = "ok", ![p].logged = @ + 1]
  /\ UNCHANGED <<actionVars, focusVars>>
  /\ UNCHANGED extVars

----
(***************************************************************************)
(* Orchestrator.generateCampaignProposal                                   *)
(* (src/modules/orchestrator/index.ts) over proposalsRepo.create and the   *)
(* ContextManager                                                          *)
(***************************************************************************)

\* The ids of the proposals generateCampaignProposal may create.
GeneratedIds == 1..MaxGenerated

FreeProposalIds == {i \in DOMAIN proposals : proposals[i] = NoProposal}

\* Locals of a generateCampaignProposal call; pre is the store as the call
\* found it, inserted tells whether its proposal row was inserted.
NoGenerate ==
  [op |-> "none", user |-> 0, result |-> "none", failed |-> "none",
   conv |-> NoId, proposal |-> NoId, inserted |-> FALSE,
   pre |-> [proposals |-> <<>>, conversations |-> <<>>]]

\* generateCampaignProposal(userRequest, userId) is called.
generateCampaignProposal_begin(p, u) ==
  /\ AllIdle
  /\ TotalMessages < MaxMsgs
  /\ FreeConvIds # {}
  /\ FreeProposalIds # {}
  /\ pc' = [pc EXCEPT ![p] = "gp_getSession"]
  /\ call' = Begin(p, [NoGenerate EXCEPT
       !.op = "generateCampaignProposal", !.user = u,
       !.pre = [proposals |-> proposals, conversations |-> conversations]])
  /\ UNCHANGED <<actionVars, focusVars>>
  /\ UNCHANGED extVars

\* const session = await this.context.getSession(userId); getGlobalContext
\* and the last messages of the current conversation are read.
generateCampaignProposal_getSession(p) ==
  /\ pc[p] = "gp_getSession"
  /\ user_sessions' = getSession_upsert(call[p].user)
  /\ pc' = [pc EXCEPT ![p] = "gp_generate"]
  /\ call' = call
  /\ UNCHANGED <<campaigns, proposals, conversations, messages,
                 knowledge_base, learnings, summarizeCalls>>
  /\ UNCHANGED actionVars
  /\ UNCHANGED extVars

\* const proposalContent = await this.ai.generateProposal(userRequest,
\* aiContext): it resolves to a plan or rejects.
generateCampaignProposal_generate(p) ==
  /\ pc[p] = "gp_generate"
  /\ \/ Throw(p, "generateProposal")
     \/ /\ pc' = [pc EXCEPT ![p] = "gp_goc_find"]
        /\ call' = call
  /\ UNCHANGED <<actionVars, focusVars>>
  /\ UNCHANGED extVars

\* const conversation = await this.context.getOrCreateConversation(
\* 'proposal'): SELECT * FROM conversations WHERE type = 'proposal' AND
\* status = 'active' LIMIT 1.
generateCampaignProposal_goc_find(p) ==
  /\ pc[p] = "gp_goc_find"
  /\ LET found == FindActive("proposal", NoId, NoId) IN
       IF found # {}
         THEN /\ pc' = [pc EXCEPT ![p] = "gp_goc_messages"]
              /\ \E c \in found : call' = [call EXCEPT ![p].conv = c]
         ELSE /\ pc' = [pc EXCEPT ![p] = "gp_goc_insert"]
              /\ call' = call
  /\ UNCHANGED <<actionVars, focusVars>>
  /\ UNCHANGED extVars

\* getOrCreateConversation: the row exists, its messages are read.
generateCampaignProposal_goc_messages(p) ==
  /\ pc[p] = "gp_goc_messages"
  /\ pc' = [pc EXCEPT ![p] = "gp_create"]
  /\ call' = call
  /\ UNCHANGED <<actionVars, focusVars>>
  /\ UNCHANGED extVars

\* getOrCreateConversation: no row, INSERT INTO conversations (type)
\* VALUES ('proposal').
generateCampaignProposal_goc_insert(p) ==
  /\ pc[p] = "gp_goc_insert"
  /\ LET c == CHOOSE m \in FreeConvIds : \A j \in FreeConvIds : m <= j IN
       /\ conversations' = InsertConversation(c, "proposal", NoId, NoId)
       /\ call' = [call EXCEPT ![p].conv = c]
  /\ pc' = [pc EXCEPT ![p] = "gp_create"]
  /\ UNCHANGED <<campaigns, proposals, messages, user_sessions,
                 knowledge_base, learnings, summarizeCalls>>
  /\ UNCHANGED actionVars
  /\ UNCHANGED extVars

\* const proposal = await proposalsRepo.create({title, status: 'draft',
\* instruction_file, reasoning, conversation_id: conversation.id}): one
\* INSERT INTO proposals, which succeeds or fails.
generateCampaignProposal_create(p) ==
  /\ pc[p] = "gp_create"
  /\ \/ /\ Throw(p, "proposalsRepo.create")
        /\ proposals' = proposals
     \/ LET i == CHOOSE m \in FreeProposalIds : \A j \in FreeProposalIds : m <= j
        IN  /\ proposals' = [proposals EXCEPT ![i] =
                 [status |-> "draft", conversation_id |-> call[p].conv]]
            /\ call' = [call EXCEPT ![p].proposal = i, ![p].inserted = TRUE]
            /\ pc' = [pc EXCEPT ![p] = "gp_link"]
  /\ UNCHANGED <<campaigns, conversations, messages, user_sessions,
                 knowledge_base, learnings, summarizeCalls>>
  /\ UNCHANGED actionVars
  /\ UNCHANGED extVars

\* A statement after the INSERT of the proposal fails: the call throws,
\* what it wrote so far stays (no transaction is open).
GenerateFails(p, step) ==
  /\ Throw(p, step)
  /\ UNCHANGED <<proposals, conversations, messages, user_sessions>>

\* await query('UPDATE conversations SET proposal_id = $1 WHERE id = $2',
\* [proposal.id, conversation.id])
generateCampaignProposal_link(p) ==
  /\ pc[p] = "gp_link"
  /\ \/ GenerateFails(p, "link")
     \/ /\ conversations' =
             [conversations EXCEPT ![call[p].conv].proposal_id = call[p].proposal]
        /\ pc' = [pc EXCEPT ![p] = "gp_user_msg"]
        /\ call' = call
        /\ UNCHANGED <<proposals, messages, user_sessions>>
  /\ UNCHANGED <<campaigns, knowledge_base, learnings, summarizeCalls>>
  /\ UNCHANGED actionVars
  /\ UNCHANGED extVars

\* await this.context.addMessage(conversation.id, 'user', userRequest)
generateCampaignProposal_user_msg(p) ==
  /\ pc[p] = "gp_user_msg"
  /\ \/ GenerateFails(p, "addMessage user")
     \/ /\ messages' = [messages EXCEPT ![call[p].conv] = Append(@, "user")]
        /\ pc' = [pc EXCEPT ![p] = "gp_assistant_msg"]
        /\ call' = call
        /\ UNCHANGED <<proposals, conversations, user_sessions>>
  /\ UNCHANGED <<campaigns, knowledge_base, learnings, summarizeCalls>>
  /\ UNCHANGED actionVars
  /\ UNCHANGED extVars

\* await this.context.addMessage(conversation.id, 'assistant', ...)
generateCampaignProposal_assistant_msg(p) ==
  /\ pc[p] = "gp_assistant_msg"
  /\ \/ GenerateFails(p, "addMessage assistant")
     \/ /\ messages' = [messages EXCEPT ![call[p].conv] = Append(@, "assistant")]
        /\ pc' = [pc EXCEPT ![p] = "gp_focus"]
        /\ call' = call
        /\ UNCHANGED <<proposals, conversations, user_sessions>>
  /\ UNCHANGED <<campaigns, knowledge_base, learnings, summarizeCalls>>
  /\ UNCHANGED actionVars
  /\ UNCHANGED extVars

\* await this.context.setCurrentProposal(userId, proposal.id): SELECT id,
\* conversation_id FROM proposals WHERE id = $1, then updateSession(userId,
\* {currentProposalId, currentConversationId: conversation_id,
\* currentCampaignId: null}); return {proposalId, title, content}.
generateCampaignProposal_focus(p) ==
  /\ pc[p] = "gp_focus"
  /\ \/ GenerateFails(p, "setCurrentProposal")
     \/ /\ user_sessions' = updateSession(call[p].user,
             [currentProposalId |-> call[p].proposal,
              currentConversationId |-> proposals[call[p].proposal].conversation_id,
              currentCampaignId |-> NoId])
        /\ pc' = [pc EXCEPT ![p] = "done"]
        /\ call' = [call EXCEPT ![p].result = "ok"]
        /\ UNCHANGED <<proposals, conversations, messages>>
  /\ UNCHANGED <<campaigns, knowledge_base, learnings, summarizeCalls>>
  /\ UNCHANGED actionVars
  /\ UNCHANGED extVars

----
(***************************************************************************)
(* Daily report: Orchestrator.generateDailyReport, saveStats,              *)
(* prepareCampaignData, proposeAction and formatDailyReport                *)
(* (src/modules/orchestrator/index.ts)                                     *)
(***************************************************************************)

\* The values of the ActionType enum.
ActionTypes ==
  {"UPDATE_BID", "ADD_NEGATIVE_KEYWORD", "SUSPEND_CAMPAIGN", "RESUME_CAMPAIGN",
   "UPDATE_DAILY_BUDGET"}

\* s.split(sep): the pieces of s between the separators, in order; a text
\* without separator is its own only piece.
RECURSIVE split(_, _)
split(s, sep) ==
  IF \A i \in 1..Len(s) : s[i] # sep THEN <<s>>
  ELSE LET k == CHOOSE i \in 1..Len(s) :
                  s[i] = sep /\ \A j \in 1..(i - 1) : s[j] # sep
       IN  <<SubSeq(s, 1, k - 1)>> \o split(SubSeq(s, k + 1, Len(s)), sep)

\* s.trim(): s without its leading and trailing blanks.
RECURSIVE trim(_)
trim(s) ==
  IF s # <<>> /\ Head(s) = " " THEN trim(Tail(s))
  ELSE IF s # <<>> /\ s[Len(s)] = " " THEN trim(SubSeq(s, 1, Len(s) - 1))
  ELSE s

\* SELECT * FROM campaigns WHERE yandex_id = $1, the id given as text.
findByYandexId(yandexId) == {r \in campaigns : ToText(r.yandex_id) = yandexId}

\* INSERT INTO campaigns (yandex_id, name, status) VALUES ($1, $2, $3) ON
\* CONFLICT (yandex_id) DO UPDATE SET name = EXCLUDED.name, status =
\* EXCLUDED.status: the table after the statement.
upsertedFromYandex(yandexId, name, status) ==
  LET old == {r \in campaigns : r.yandex_id = yandexId}
  IN  IF old = {}
        THEN campaigns \cup
               {[id |-> Cardinality(campaigns) + 1, yandex_id |-> yandexId,
                 name |-> name, status |-> status]}
        ELSE (campaigns \ old) \cup
               {[r EXCEPT !.name = name, !.status = status] : r \in old}

\* What yandex.getStats(yesterday, yesterday) may resolve to: no row, the
\* row of a campaign the store holds, the row of one it does not hold yet,
\* both.
PlatformStats ==
  LET known == [campaignId |-> YandexIdOf(1), campaignName |-> CampaignName(1),
                figures |-> CHOOSE f \in StatFigures : f.impressions > 0]
      fresh == [campaignId |-> 100, campaignName |-> <<"z">>,
                figures |-> CHOOSE f \in StatFigures : f.impressions = 0]
  IN  {<<>>, <<known>>, <<fresh>>, <<fresh, known>>}

\* The texts the LLM may give as rec.action.campaignId: none, a campaign of
\* the catalogue, a yandex id no campaign of the catalogue has, lists of
\* them separated by commas.
TargetTexts ==
  LET a == ToText(YandexIdOf(1))
      b == ToText(100)
      c == ToText(YandexIdOf(NumCampaigns + 1))
  IN  {<<>>, a, c, a \o <<",", " ">> \o b, a \o <<",">> \o a, <<",">> \o a}

\* rec.action is absent.
NoRecAction == [type |-> "none", campaignId |-> <<>>]

\* The recommendations an analysis may hold: text only, or carrying a
\* structured action whose type is a value of ActionType or is not.
Recommendations ==
  {[title |-> <<"t">>, action |-> NoRecAction]}
  \cup {[title |-> <<"u">>, action |-> [type |-> "UPDATE_BID", campaignId |-> t]] :
          t \in TargetTexts}
  \cup {[title |-> <<"v">>,
          action |-> [type |-> "bogus", campaignId |-> ToText(YandexIdOf(1))]]}

\* analysis.recommendations as ai.analyze may resolve them.
Analyses ==
  UNION {[1..n -> Recommendations] : n \in 0..MaxRecs}

\* prepareCampaignData(stats, previousStats): one entry per campaign of the
\* stats, in the order a Map first saw them.
RECURSIVE prepareCampaignData(_)
prepareCampaignData(stats) ==
  IF stats = <<>> THEN <<>>
  ELSE LET rest == prepareCampaignData(SubSeq(stats, 1, Len(stats) - 1))
           id == stats[Len(stats)].campaignId
       IN  IF \E i \in 1..Len(rest) : rest[i] = id THEN rest
           ELSE Append(rest, id)

\* (rec.action.campaignId || campaignData[0]?.campaignId || '').split(',')
\* then, per piece, trim() and skip the empty ones.
RECURSIVE NonEmpty(_)
NonEmpty(pieces) ==
  IF pieces = <<>> THEN <<>>
  ELSE IF trim(Head(pieces)) = <<>> THEN NonEmpty(Tail(pieces))
  ELSE <<trim(Head(pieces))>> \o NonEmpty(Tail(pieces))

campaignIds(rec, campaignData) ==
  LET text == IF rec.action.campaignId # <<>> THEN rec.action.campaignId
              ELSE IF campaignData # <<>> THEN ToText(campaignData[1])
              ELSE <<>>
  IN  NonEmpty(split(text, ","))

\* The (recommendation, target) pairs the loops of step 6 visit, in order.
RECURSIVE Visits(_, _)
Visits(recs, campaignData) ==
  IF recs = <<>> THEN <<>>
  ELSE LET rec == Head(recs)
           ids == IF rec.action = NoRecAction THEN <<>>
                  ELSE campaignIds(rec, campaignData)
       IN  [i \in 1..Len(ids) |-> [type |-> rec.action.type, target |-> ids[i]]]
             \o Visits(Tail(recs), campaignData)

\* formatDailyReport(analysis, stats): the titles under the heading
\* "Recommendations", analysis.recommendations.map(...) in order.
formatDailyReport(recs) == [i \in 1..Len(recs) |-> recs[i].title]

\* analysis.recommendations.filter((r) => !r.action).map(...): the list
\* telegram.sendReport receives beside the text.
RECURSIVE WithoutAction(_)
WithoutAction(recs) ==
  IF recs = <<>> THEN <<>>
  ELSE IF Head(recs).action = NoRecAction
    THEN <<Head(recs).title>> \o WithoutAction(Tail(recs))
  ELSE WithoutAction(Tail(recs))

\* The most pending actions one call can create.
MaxVisits ==
  LET longest == CHOOSE t \in TargetTexts :
                   \A u \in TargetTexts :
                     Len(NonEmpty(split(u, ","))) <= Len(NonEmpty(split(t, ",")))
  IN  MaxRecs * Len(NonEmpty(split(longest, ",")))

\* The rows pending_actions may hold while reports are generated: room for
\* the actions of one call after a call that created one.
ReportActionIds == 1..(MaxVisits + 1)

NoReport ==
  [op |-> "none", notify |-> FALSE, result |-> "none", failed |-> "none",
   stats |-> <<>>, saved |-> 0, campaignData |-> <<>>,
   recommendations |-> <<>>, analysed |-> FALSE, visits |-> <<>>,
   created |-> <<>>, cards |-> 0, text |-> <<>>, sent |-> FALSE,
   pre |-> <<>>, buttons |-> <<>>]

FreeReportIds == {id \in ReportActionIds : pending_actions[id] = NoAction}

\* generateDailyReport(sendToTelegram) is called: by the scheduler and the
\* chat command with true, by the reports worker with false.
generateDailyReport_begin(p, sendToTelegram) ==
  /\ AllIdle
  /\ Cardinality(FreeReportIds) >= MaxVisits
  /\ pc' = [pc EXCEPT ![p] = "dr_getStats"]
  /\ call' = Begin(p, [NoReport EXCEPT
       !.op = "generateDailyReport", !.notify = sendToTelegram,
       !.pre = pending_actions])
  /\ UNCHANGED <<actionVars, focusVars>>
  /\ UNCHANGED extVars

\* const stats = await this.yandex.getStats(yesterday, yesterday)
generateDailyReport_getStats(p) ==
  /\ pc[p] = "dr_getStats"
  /\ \/ Throw(p, "getStats")
     \/ \E stats \in PlatformStats :
          /\ pc' = [pc EXCEPT ![p] =
               IF stats = <<>> THEN "dr_analyze" ELSE "dr_saveStats"]
          /\ call' = [call EXCEPT ![p].stats = stats]
  /\ UNCHANGED <<actionVars, focusVars>>
  /\ UNCHANGED extVars

\* One entry of the list saveStats(stats) goes through: upsertFromYandex(
\* stat.campaignId, stat.campaignName, 'active') then dailyStatsRepo.upsert
\* for the campaign row returned; the date of the entry is the first date.
saveStats_entry(stat) ==
  LET rows == upsertedFromYandex(stat.campaignId, stat.campaignName, "active")
      campaign == CHOOSE r \in rows : r.yandex_id = stat.campaignId
  IN  /\ campaigns' = rows
      /\ daily_stats' = upsert(campaign.id, 1, stat.figures)
      /\ applied' =
           IF <<campaign.id, 1>> \in DOMAIN applied
             THEN [applied EXCEPT ![<<campaign.id, 1>>] =
                     StatColumns(campaign.id, 1, stat.figures)]
             ELSE applied

\* await this.saveStats(stats), one entry of the list.
generateDailyReport_saveStats(p) ==
  /\ pc[p] = "dr_saveStats"
  /\ saveStats_entry(call[p].stats[call[p].saved + 1])
  /\ pc' = [pc EXCEPT ![p] =
       IF call[p].saved + 1 = Len(call[p].stats) THEN "dr_analyze"
       ELSE "dr_saveStats"]
  /\ call' = [call EXCEPT ![p].saved = @ + 1]
  /\ UNCHANGED <<proposals, conversations, messages, user_sessions,
                 knowledge_base, learnings, summarizeCalls>>
  /\ UNCHANGED actionVars
  /\ UNCHANGED workerVars

\* Mutant: step 6 runs whatever sendToTelegram is.
generateDailyReport_analyze_Always(p) ==
  /\ pc[p] = "dr_analyze"
  /\ \/ Throw(p, "analyze")
     \/ \E recs \in Analyses :
          LET campaignData == prepareCampaignData(call[p].stats)
              visits == Visits(recs, campaignData)
          IN  /\ pc' = [pc EXCEPT ![p] =
                   IF visits = <<>> THEN "dr_format" ELSE "dr_propose"]
              /\ call' = [call EXCEPT
                   ![p].campaignData = campaignData,
                   ![p].recommendations = recs,
                   ![p].analysed = TRUE,
                   ![p].visits = visits]
  /\ UNCHANGED <<actionVars, focusVars>>
  /\ UNCHANGED extVars

\* const campaignData = await this.prepareCampaignData(stats, previousStats)
\* (the search queries it is enriched with go to a table no variable here
\* holds, and a failure to fetch them is caught); const analysis = await
\* this.ai.analyze({...task: 'daily_report'}); if (sendToTelegram) the loops
\* of step 6 are entered.
generateDailyReport_analyze(p) ==
  /\ pc[p] = "dr_analyze"
  /\ \/ Throw(p, "analyze")
     \/ \E recs \in Analyses :
          LET campaignData == prepareCampaignData(call[p].stats)
              visits == IF call[p].notify THEN Visits(recs, campaignData)
                        ELSE <<>>
          IN  /\ pc' = [pc EXCEPT ![p] =
                   IF visits = <<>> THEN "dr_format" ELSE "dr_propose"]
              /\ call' = [call EXCEPT
                   ![p].campaignData = campaignData,
                   ![p].recommendations = recs,
                   ![p].analysed = TRUE,
                   ![p].visits = visits]
  /\ UNCHANGED <<actionVars, focusVars>>
  /\ UNCHANGED extVars

\* One (recommendation, target) pair of step 6: if (Object.values(
\* ActionType).includes(rec.action.type)) { dbCampaign = await
\* campaignsRepo.findByYandexId(trimmedId); if (dbCampaign) await
\* this.proposeAction(dbCampaign.id, ...) else logger.warn(...) };
\* proposeAction begins with actionManager.createAction.
generateDailyReport_propose(p) ==
  /\ pc[p] = "dr_propose"
  /\ LET visit == Head(call[p].visits)
         rows == findByYandexId(visit.target)
     IN  IF visit.type \in ActionTypes /\ rows # {}
           THEN LET id == CHOOSE m \in FreeReportIds :
                            \A k \in FreeReportIds : m <= k
                    dbCampaign == CHOOSE r \in rows : TRUE
                IN  /\ pending_actions' =
                         [pending_actions EXCEPT ![id] =
                            [status |-> "pending", created_at |-> now,
                             campaign_id |-> dbCampaign.id,
                             type |-> visit.type]]
                    /\ pc' = [pc EXCEPT ![p] = "dr_card"]
                    /\ call' = [call EXCEPT ![p].created = Append(@, id)]
           ELSE /\ pending_actions' = pending_actions
                /\ pc' = [pc EXCEPT ![p] =
                     IF Tail(call[p].visits) = <<>> THEN "dr_format"
                     ELSE "dr_propose"]
                /\ call' = [call EXCEPT ![p].visits = Tail(@)]
  /\ UNCHANGED <<now, apiCalls, experiments>>
  /\ UNCHANGED focusVars
  /\ UNCHANGED extVars

\* proposeAction, after createAction: messageId = await this.telegram
\* .sendActionConfirmation(chatId, action.id, message): the card is
\* delivered or the call rejects, and generateDailyReport with it.
generateDailyReport_card(p) ==
  /\ pc[p] = "dr_card"
  /\ \/ Throw(p, "sendActionConfirmation")
     \/ /\ pc' = [pc EXCEPT ![p] =
             IF Tail(call[p].visits) = <<>> THEN "dr_format" ELSE "dr_propose"]
        /\ call' = [call EXCEPT ![p].visits = Tail(@), ![p].cards = @ + 1]
  /\ UNCHANGED <<actionVars, focusVars>>
  /\ UNCHANGED extVars

\* const reportText = this.formatDailyReport(analysis, stats); without
\* sendToTelegram the call returns {text, recommendations}.
generateDailyReport_format(p) ==
  /\ pc[p] = "dr_format"
  /\ pc' = [pc EXCEPT ![p] = IF call[p].notify THEN "dr_send" ELSE "done"]
  /\ call' = [call EXCEPT
       ![p].text = formatDailyReport(call[p].recommendations),
       ![p].result = IF call[p].notify THEN @ ELSE "ok"]
  /\ UNCHANGED <<actionVars, focusVars>>
  /\ UNCHANGED extVars

\* await this.telegram.sendReport(reportText, recommendations without
\* action); return {text: reportText, recommendations}.
generateDailyReport_send(p) ==
  /\ pc[p] = "dr_send"
  /\ \/ Throw(p, "sendReport")
     \/ /\ pc' = [pc EXCEPT ![p] = "done"]
        /\ call' = [call EXCEPT ![p].sent = TRUE, ![p].result = "ok"]
  /\ UNCHANGED <<actionVars, focusVars>>
  /\ UNCHANGED extVars

----
(***************************************************************************)
(* Orchestrator.runEveningAnalysis (src/modules/orchestrator/index.ts)     *)
(***************************************************************************)

\* runEveningAnalysis() is called by the evening job.
runEveningAnalysis_begin(p) ==
  /\ AllIdle
  /\ pc' = [pc EXCEPT ![p] = "ev_getStats"]
  /\ call' = Begin(p, [NoReport EXCEPT !.op = "runEveningAnalysis",
                                       !.pre = pending_actions])
  /\ UNCHANGED <<actionVars, focusVars>>
  /\ UNCHANGED extVars

\* Mutant: the catch block logs and rethrows.
Caught_Rethrow(p, step) ==
  /\ pc' = [pc EXCEPT ![p] = "done"]
  /\ call' = [call EXCEPT ![p].result = "error", ![p].failed = step]

\* catch (error) { logger.error('Evening analysis failed', {error}) }: the
\* rejection of the step is logged and the call resolves.
Caught(p, step) ==
  /\ pc' = [pc EXCEPT ![p] = "done"]
  /\ call' = [call EXCEPT ![p].result = "ok", ![p].failed = step]

\* const stats = await this.yandex.getStats(today, today)
runEveningAnalysis_getStats(p) ==
  /\ pc[p] = "ev_getStats"
  /\ \/ Caught(p, "getStats")
     \/ \E stats \in PlatformStats :
          /\ pc' = [pc EXCEPT ![p] = "ev_prepare"]
          /\ call' = [call EXCEPT ![p].stats = stats]
  /\ UNCHANGED <<actionVars, focusVars>>
  /\ UNCHANGED extVars

\* const campaignData = await this.prepareCampaignData(stats, []): it reads
\* the campaigns table, a read that may reject.
runEveningAnalysis_prepare(p) ==
  /\ pc[p] = "ev_prepare"
  /\ \/ Caught(p, "prepareCampaignData")
     \/ /\ pc' = [pc EXCEPT ![p] = "ev_analyze"]
        /\ call' = [call EXCEPT
             ![p].campaignData = prepareCampaignData(call[p].stats)]
  /\ UNCHANGED <<actionVars, focusVars>>
  /\ UNCHANGED extVars

\* const analysis = await this.ai.analyze({...}); without recommendations
\* nothing is sent.
runEveningAnalysis_analyze(p) ==
  /\ pc[p] = "ev_analyze"
  /\ \/ Caught(p, "analyze")
     \/ \E recs \in Analyses :
          /\ pc' = [pc EXCEPT ![p] = IF Len(recs) > 0 THEN "ev_send" ELSE "done"]
          /\ call' = [call EXCEPT
               ![p].recommendations = recs, ![p].analysed = TRUE,
               ![p].result = IF Len(recs) > 0 THEN @ ELSE "ok"]
  /\ UNCHANGED <<actionVars, focusVars>>
  /\ UNCHANGED extVars

\* await this.telegram.sendToAdmin(message, {parse_mode: 'Markdown'})
runEveningAnalysis_send(p) ==
  /\ pc[p] = "ev_send"
  /\ \/ Caught(p, "sendToAdmin")
     \/ /\ pc' = [pc EXCEPT ![p] = "done"]
        /\ call' = [call EXCEPT ![p].sent = TRUE, ![p].result = "ok"]
  /\ UNCHANGED <<actionVars, focusVars>>
  /\ UNCHANGED extVars

----
(***************************************************************************)
(* Orchestrator.syncYandexData (src/modules/orchestrator/index.ts)         *)
(***************************************************************************)

\* What yandex.getCampaigns('all') may resolve to: campaigns of any status,
\* one the store holds and one it does not hold yet.
PlatformCampaigns ==
  LET held == [Id |-> YandexIdOf(1), Name |-> CampaignName(1), Status |-> "ACCEPTED"]
      draft == [Id |-> 100, Name |-> <<"z">>, Status |-> "MODERATION"]
      gone == [Id |-> 100, Name |-> <<"z">>, Status |-> "ARCHIVED"]
  IN  {<<>>, <<held>>, <<gone>>, <<held, gone>>, <<draft, held>>}

NoSync ==
  [op |-> "none", result |-> "none", failed |-> "none",
   campaigns |-> <<>>, synced |-> 0, warned |-> {}, keywords |-> {},
   stats |-> <<>>, saved |-> 0]

\* syncYandexData(mode) is called.
syncYandexData_begin(p) ==
  /\ AllIdle
  /\ pc' = [pc EXCEPT ![p] = "sy_getCampaigns"]
  /\ call' = Begin(p, [NoSync EXCEPT !.op = "syncYandexData"])
  /\ UNCHANGED <<actionVars, focusVars>>
  /\ UNCHANGED extVars

\* const campaigns = await this.yandex.getCampaigns('all')
syncYandexData_getCampaigns(p) ==
  /\ pc[p] = "sy_getCampaigns"
  /\ \/ Throw(p, "getCampaigns")
     \/ \E cs \in PlatformCampaigns :
          /\ pc' = [pc EXCEPT ![p] =
               IF cs = <<>> THEN "sy_getStats" ELSE "sy_bidModifiers"]
          /\ call' = [call EXCEPT ![p].campaigns = cs]
  /\ UNCHANGED <<actionVars, focusVars>>
  /\ UNCHANGED extVars

\* The campaign the loop is at.
SyncCampaign(p) == call[p].campaigns[call[p].synced + 1]

\* Mutant: a rejected getBidModifiers is not caught.
syncYandexData_bidModifiers_Abort(p) ==
  /\ pc[p] = "sy_bidModifiers"
  /\ \/ Throw(p, "getBidModifiers")
     \/ /\ pc' = [pc EXCEPT ![p] = "sy_upsert"]
        /\ call' = call
  /\ UNCHANGED <<actionVars, focusVars>>
  /\ UNCHANGED extVars

\* try { settings.BidModifiers = await this.yandex.getBidModifiers(id) }
\* catch (e) { logger.warn(...) }
syncYandexData_bidModifiers(p) ==
  /\ pc[p] = "sy_bidModifiers"
  /\ pc' = [pc EXCEPT ![p] = "sy_upsert"]
  /\ \/ call' = [call EXCEPT ![p].warned =
                   @ \cup {<<call[p].synced + 1, "getBidModifiers">>}]
     \/ call' = call
  /\ UNCHANGED <<actionVars, focusVars>>
  /\ UNCHANGED extVars

\* The end of one pass of the loop over the campaigns.
SyncNext(p) ==
  IF call[p].synced + 1 = Len(call[p].campaigns) THEN "sy_getStats"
  ELSE "sy_bidModifiers"

\* await campaignsRepo.upsertFromYandex(campaign.Id.toString(),
\* campaign.Name, campaign.Status, settings); keywords are synced for the
\* statuses ACCEPTED and MODERATION only.
syncYandexData_upsert(p) ==
  /\ pc[p] = "sy_upsert"
  /\ LET campaign == SyncCampaign(p)
     IN  /\ campaigns' =
              upsertedFromYandex(campaign.Id, campaign.Name, campaign.Status)
         /\ IF campaign.Status \in {"ACCEPTED", "MODERATION"}
              THEN /\ pc' = [pc EXCEPT ![p] = "sy_keywords"]
                   /\ call' = call
              ELSE /\ pc' = [pc EXCEPT ![p] = SyncNext(p)]
                   /\ call' = [call EXCEPT ![p].synced = @ + 1]
  /\ UNCHANGED <<proposals, conversations, messages, user_sessions,
                 knowledge_base, learnings, summarizeCalls>>
  /\ UNCHANGED actionVars
  /\ UNCHANGED extVars

\* try { dbCampaign = await campaignsRepo.findByYandexId(id); keywords =
\* await this.yandex.getKeywords(id); for each: await keywordsRepo.upsert }
\* catch (e) { logger.warn(...) }; the keywords table is kept as the set of
\* campaigns whose keywords were written.
syncYandexData_keywords(p) ==
  /\ pc[p] = "sy_keywords"
  /\ pc' = [pc EXCEPT ![p] = SyncNext(p)]
  /\ \/ call' = [call EXCEPT
                   ![p].warned = @ \cup {<<call[p].synced + 1, "getKeywords">>},
                   ![p].synced = @ + 1]
     \/ call' = [call EXCEPT
                   ![p].keywords = @ \cup {SyncCampaign(p).Id},
                   ![p].synced = @ + 1]
  /\ UNCHANGED <<actionVars, focusVars>>
  /\ UNCHANGED extVars

\* const stats = await this.yandex.getStats(startDate, today)
syncYandexData_getStats(p) ==
  /\ pc[p] = "sy_getStats"
  /\ \/ Throw(p, "getStats")
     \/ \E stats \in PlatformStats :
          /\ pc' = [pc EXCEPT ![p] =
               IF stats = <<>> THEN "done" ELSE "sy_saveStats"]
          /\ call' = [call EXCEPT
               ![p].stats = stats,
               ![p].result = IF stats = <<>> THEN "ok" ELSE @]
  /\ UNCHANGED <<actionVars, focusVars>>
  /\ UNCHANGED extVars

\* await this.saveStats(stats), one entry of the list.
syncYandexData_saveStats(p) ==
  /\ pc[p] = "sy_saveStats"
  /\ saveStats_entry(call[p].stats[call[p].saved + 1])
  /\ pc' = [pc EXCEPT ![p] =
       IF call[p].saved + 1 = Len(call[p].stats) THEN "done"
       ELSE "sy_saveStats"]
  /\ call' = [call EXCEPT
       ![p].saved = @ + 1,
       ![p].result = IF call[p].saved + 1 = Len(call[p].stats) THEN "ok" ELSE @]
  /\ UNCHANGED <<proposals, conversations, messages, user_sessions,
                 knowledge_base, learnings, summarizeCalls>>
  /\ UNCHANGED actionVars
  /\ UNCHANGED workerVars

----
(***************************************************************************)
(* Queue workers (src/modules/queue/workers.ts): the reports worker and    *)
(* the messages worker, one job at a time.                                 *)
(***************************************************************************)

\* The chats a job payload may name.
Chats == 1..NumChats

\* The jobs of the two queues: job.data.type of the reports queue, job.name
\* of the messages queue, and in each a value the worker has no branch for.
JobKinds ==
  {<<"reports", "daily">>, <<"reports", "weekly">>, <<"reports", "other">>,
   <<"messages", "create_campaign">>, <<"messages", "user_question">>,
   <<"messages", "other">>}

\* What the worker sends once the Orchestrator call of the job has
\* resolved, in order: the report text then one message per recommendation;
\* the weekly text; the proposal card; the clarification keyboard of the
\* campaigns, of the proposals, the hint to choose a context, or the answer.
Deliveries(kind) ==
  CASE kind = <<"reports", "daily">> ->
         {<<"report">> \o [i \in 1..n |-> "recommendation"] : n \in 0..MaxRecs}
    [] kind = <<"reports", "weekly">> -> {<<"report">>}
    [] kind = <<"messages", "create_campaign">> -> {<<"proposal">>}
    [] kind = <<"messages", "user_question">> ->
         {<<"campaigns">>, <<"proposals">>, <<"choose">>, <<"answer">>}
    [] OTHER -> {}

NoJob ==
  [op |-> "none", kind |-> <<"none", "none">>, chatId |-> 0,
   orchestrator |-> "none", todo |-> <<>>, outbox |-> <<>>,
   rejected |-> 0, notices |-> 0, result |-> "none"]

\* A worker takes a job; one whose type or name it has no branch for
\* completes at once.
job_begin(p, kind, chatId) ==
  /\ AllIdle
  /\ pc' = [pc EXCEPT ![p] = IF Deliveries(kind) = {} THEN "done" ELSE "jb_call"]
  /\ call' = Begin(p, [NoJob EXCEPT
       !.op = "job", !.kind = kind, !.chatId = chatId,
       !.result = IF Deliveries(kind) = {} THEN "completed" ELSE @])
  /\ UNCHANGED <<actionVars, focusVars>>
  /\ UNCHANGED extVars

\* await orchestrator.generateDailyReport(false) / generateWeeklyReport(false)
\* / generateCampaignProposal(...) / handleUserQuestion(...): the call
\* resolves with what is to be sent, or rejects.
job_call(p) ==
  /\ pc[p] = "jb_call"
  /\ \/ /\ pc' = [pc EXCEPT ![p] = "jb_catch"]
        /\ call' = [call EXCEPT ![p].orchestrator = "error"]
     \/ \E d \in Deliveries(call[p].kind) :
          /\ pc' = [pc EXCEPT ![p] = "jb_send"]
          /\ call' = [call EXCEPT ![p].orchestrator = "ok", ![p].todo = d]
  /\ UNCHANGED <<actionVars, focusVars>>
  /\ UNCHANGED extVars

\* await telegramBot.sendMessage(job.data.chatId, ...): the transport takes
\* the message or rejects, which the catch block receives as well.
job_send(p) ==
  /\ pc[p] = "jb_send"
  /\ \/ /\ pc' = [pc EXCEPT ![p] = "jb_catch"]
        /\ call' = [call EXCEPT ![p].rejected = @ + 1]
     \/ /\ pc' = [pc EXCEPT ![p] =
             IF Tail(call[p].todo) = <<>> THEN "done" ELSE "jb_send"]
        /\ call' = [call EXCEPT
             ![p].outbox = Append(@, [chat |-> call[p].chatId,
                                      message |-> Head(call[p].todo)]),
             ![p].todo = Tail(@),
             ![p].result = IF Tail(call[p].todo) = <<>> THEN "completed" ELSE @]
  /\ UNCHANGED <<actionVars, focusVars>>
  /\ UNCHANGED extVars

\* Mutant: the catch block notifies and does not rethrow.
job_catch_Swallow(p) ==
  /\ pc[p] = "jb_catch"
  /\ pc' = [pc EXCEPT ![p] = "done"]
  /\ \/ call' = [call EXCEPT ![p].rejected = @ + 1, ![p].notices = @ + 1,
                             ![p].result = "failed"]
     \/ call' = [call EXCEPT
          ![p].outbox = Append(@, [chat |-> call[p].chatId, message |-> "failure"]),
          ![p].notices = @ + 1,
          ![p].result = "completed"]
  /\ UNCHANGED <<actionVars, focusVars>>
  /\ UNCHANGED extVars

\* catch (error) { logger.error(...); await telegramBot.sendMessage(
\* job.data.chatId, <generic failure text>); throw error }: the job fails
\* with the error, or with the rejection of the notice.
job_catch(p) ==
  /\ pc[p] = "jb_catch"
  /\ pc' = [pc EXCEPT ![p] = "done"]
  /\ \/ call' = [call EXCEPT ![p].rejected = @ + 1, ![p].notices = @ + 1,
                             ![p].result = "failed"]
     \/ call' = [call EXCEPT
          ![p].outbox = Append(@, [chat |-> call[p].chatId, message |-> "failure"]),
          ![p].notices = @ + 1,
          ![p].result = "failed"]
  /\ UNCHANGED <<actionVars, focusVars>>
  /\ UNCHANGED extVars

----
(***************************************************************************)
(* The approve button (handleCallback, case 'approve'): every click calls  *)
(* Orchestrator.executeAction, and a click does not wait for another.      *)
(***************************************************************************)

\* A double click on the approve button of a card: two clicks in flight.
Clicks == {"click1", "click2"}

\* Two questions handled at once: the chat handler awaits
\* handleUserQuestion per update and the messages worker per job, none
\* waiting for another.
Askers == {"ask1", "ask2"}

----
(***************************************************************************)
(* Orchestrator.prepareCampaignData (src/modules/orchestrator/index.ts)    *)
(***************************************************************************)

\* undefined in a field of the result.
Absent == [num |-> 0, den |-> 0]

RECURSIVE Gcd(_, _)
Gcd(a, b) == IF b = 0 THEN a ELSE Gcd(b, a % b)

\* The number n / d of a division whose divisor is positive.
Ratio(n, d) == [num |-> n \div Gcd(n, d), den |-> d \div Gcd(n, d)]

\* The rows getStats may give as currentStats: per row a campaign of the
\* store or one the store does not hold, and the figures of a day; the
\* date of a row is its place in the list.
CurrentStats ==
  LET ids == {YandexIdOf(c) : c \in CampaignIds} \cup {100}
      Rows(n) == [1..n -> [campaignId : ids, figures : StatFigures]]
  IN  UNION {{[i \in 1..n |->
                 [campaignId |-> rows[i].campaignId, date |-> i,
                  impressions |-> rows[i].figures.impressions,
                  clicks |-> rows[i].figures.clicks,
                  cost |-> rows[i].figures.cost,
                  conversions |-> rows[i].figures.conversions,
                  ctr |-> rows[i].figures.ctr]] : rows \in Rows(n)} :
             n \in 0..MaxStatRows}

\* The rows dailyStatsRepo.findAllByDateRange may give as previousStats:
\* rows of the first campaign, with and without impressions, and rows of
\* another campaign.
PreviousStats ==
  LET shown == [campaign_id |-> 1, impressions |-> 200, clicks |-> 8,
                cost |-> 70, conversions |-> 0]
      sold == [campaign_id |-> 1, impressions |-> 100, clicks |-> 10,
               cost |-> 60, conversions |-> 2]
      idle == [campaign_id |-> 1, impressions |-> 0, clicks |-> 0,
               cost |-> 0, conversions |-> 0]
      other == [campaign_id |-> NumCampaigns + 1, impressions |-> 300,
                clicks |-> 30, cost |-> 90, conversions |-> 3]
  IN  {<<>>, <<shown>>, <<idle>>, <<other>>, <<shown, sold>>, <<other, sold>>,
       <<idle, other>>, <<sold, other, shown>>}

\* for (const stat of currentStats) { existing = campaignMap.get(
\* stat.campaignId) || []; existing.push(stat); campaignMap.set(...) }: the
\* keys in the order a Map first saw them, and the rows of a key in order.
RECURSIVE MapKeys(_)
MapKeys(stats) ==
  IF stats = <<>> THEN <<>>
  ELSE LET rest == MapKeys(SubSeq(stats, 1, Len(stats) - 1))
           id == stats[Len(stats)].campaignId
       IN  IF \E i \in 1..Len(rest) : rest[i] = id THEN rest
           ELSE Append(rest, id)

RECURSIVE MapRows(_, _)
MapRows(stats, id) ==
  IF stats = <<>> THEN <<>>
  ELSE IF Head(stats).campaignId = id
    THEN <<Head(stats)>> \o MapRows(Tail(stats), id)
  ELSE MapRows(Tail(stats), id)

\* Mutant: the previous rows are not filtered by campaign.
prevTotals_AllRows(previousStats, campaign) ==
  LET Total[n \in 0..Len(previousStats)] ==
        IF n = 0
          THEN [impressions |-> 0, clicks |-> 0, cost |-> 0, conversions |-> 0]
          ELSE LET s == previousStats[n]
                   acc == Total[n - 1]
               IN  [impressions |-> acc.impressions + s.impressions,
                    clicks |-> acc.clicks + s.clicks,
                    cost |-> acc.cost + s.cost,
                    conversions |-> acc.conversions + s.conversions]
  IN  Total[Len(previousStats)]

\* previousStats.filter((s) => s.campaign_id === campaign?.id).reduce(...):
\* the totals of the rows of the campaign, campaign being the set of rows
\* findByYandexId found (none: no row passes the filter).
prevTotals(previousStats, campaign) ==
  LET Total[n \in 0..Len(previousStats)] ==
        IF n = 0
          THEN [impressions |-> 0, clicks |-> 0, cost |-> 0, conversions |-> 0]
          ELSE LET s == previousStats[n]
                   acc == Total[n - 1]
               IN  IF \E r \in campaign : r.id = s.campaign_id
                     THEN [impressions |-> acc.impressions + s.impressions,
                           clicks |-> acc.clicks + s.clicks,
                           cost |-> acc.cost + s.cost,
                           conversions |-> acc.conversions + s.conversions]
                     ELSE acc
  IN  Total[Len(previousStats)]

\* One entry of the result: result.push({campaignId, stats: stats.map(...
\* cpa: s.conversions > 0 ? s.cost / s.conversions : undefined),
\* previousPeriodStats: prevTotals.impressions > 0 ? {...} : undefined}).
CampaignDataEntry(currentStats, previousStats, id) ==
  LET stats == MapRows(currentStats, id)
      campaign == {r \in campaigns : r.yandex_id = id}
      totals == prevTotals(previousStats, campaign)
  IN  [campaignId |-> id,
       stats |->
         [i \in 1..Len(stats) |->
            [date |-> stats[i].date, impressions |-> stats[i].impressions,
             clicks |-> stats[i].clicks, cost |-> stats[i].cost,
             conversions |-> stats[i].conversions, ctr |-> stats[i].ctr,
             cpa |-> IF stats[i].conversions > 0
                       THEN Ratio(stats[i].cost, stats[i].conversions)
                       ELSE Absent]],
       previousPeriodStats |->
         IF totals.impressions > 0
           THEN [impressions |-> totals.impressions, clicks |-> totals.clicks,
                 cost |-> totals.cost, conversions |-> totals.conversions,
                 ctr |-> Ratio(totals.clicks * 100, totals.impressions),
                 cpa |-> IF totals.conversions > 0
                           THEN Ratio(totals.cost, totals.conversions)
                           ELSE Absent]
           ELSE Absent]

NoPrepare ==
  [op |-> "none", currentStats |-> <<>>, previousStats |-> <<>>,
   result |-> <<>>]

\* prepareCampaignData(currentStats, previousStats) is called.
prepareCampaignData_begin(p, currentStats, previousStats) ==
  /\ AllIdle
  /\ pc' = [pc EXCEPT ![p] = "pd_build"]
  /\ call' = Begin(p, [NoPrepare EXCEPT
       !.op = "prepareCampaignData", !.currentStats = currentStats,
       !.previousStats = previousStats])
  /\ UNCHANGED <<actionVars, focusVars>>
  /\ UNCHANGED extVars

\* for (const [campaignId, stats] of campaignMap) { ... }; return result:
\* the store is only read.
prepareCampaignData_return(p) ==
  /\ pc[p] = "pd_build"
  /\ pc' = [pc EXCEPT ![p] = "done"]
  /\ call' = [call EXCEPT ![p].result =
       LET keys == MapKeys(call[p].currentStats)
       IN  [i \in 1..Len(keys) |->
              CampaignDataEntry(call[p].currentStats, call[p].previousStats,
                                keys[i])]]
  /\ UNCHANGED <<actionVars, focusVars>>
  /\ UNCHANGED extVars

----
(***************************************************************************)
(* handleCallback: the approve and reject buttons of an action card        *)
(***************************************************************************)

\* No button press is being handled.
Quiet == \A q \in DOMAIN pc : pc[q] \in {"idle", "done"}

\* case 'approve': await ctx.answerCbQuery(...);
\*                 await orchestrator.executeAction(param);
handleCallback_approve(p, id) ==
  /\ Quiet
  /\ executeAction_begin(p, id)

\* case 'reject': await ctx.answerCbQuery('Отклонено');
\*                await ctx.editMessageText('❌ Действие отклонено'); break;
\* The case makes no orchestrator call.
handleCallback_reject(p, id) ==
  /\ Quiet
  /\ pc[p] = "idle"
  /\ pc' = [pc EXCEPT ![p] = "done"]
  /\ call' = Begin(p,
       [NoCall EXCEPT !.op = "reject", !.id = id, !.pre = StatusOf(id),
                      !.post = StatusOf(id), !.result = "ok"])
  /\ UNCHANGED <<actionVars, focusVars>>
  /\ UNCHANGED extVars

----
(***************************************************************************)
(* The reports worker's daily job and the approve button of the            *)
(* recommendations it delivers (src/modules/queue/workers.ts,              *)
(* createRecommendationKeyboard, handleCallback)                           *)
(***************************************************************************)

\* The user pressing a delivered button.
Pressers == {"press"}

\* if (job.data.type === 'daily') report = await
\* orchestrator.generateDailyReport(false)
reportJob_begin(p) ==
  /\ pc[p] = "idle"
  /\ generateDailyReport_begin(p, FALSE)

\* await telegramBot.sendMessage(job.data.chatId, report.text, ...)
reportJob_sendText(p) ==
  /\ pc[p] = "done"
  /\ call[p].op = "generateDailyReport" /\ ~call[p].notify
  /\ call[p].result = "ok"
  /\ pc' = [pc EXCEPT ![p] =
       IF call[p].recommendations = <<>> THEN "delivered" ELSE "wk_rec"]
  /\ call' = [call EXCEPT ![p].sent = TRUE]
  /\ UNCHANGED <<actionVars, focusVars>>
  /\ UNCHANGED extVars

\* for (const rec of report.recommendations) await telegramBot.sendMessage(
\* chatId, ..., {reply_markup: createRecommendationKeyboard(rec.id)}): the
\* button's callback_data is `approve:${rec.id}`, rec.id being whatever id
\* the analysis gave the recommendation.
reportJob_sendRecommendation(p) ==
  /\ pc[p] = "wk_rec"
  /\ \E id \in ReportActionIds :
       /\ call' = [call EXCEPT ![p].buttons = Append(@, id)]
       /\ pc' = [pc EXCEPT ![p] =
            IF Len(call[p].buttons) + 1 = Len(call[p].recommendations)
              THEN "delivered" ELSE "wk_rec"]
  /\ UNCHANGED <<actionVars, focusVars>>
  /\ UNCHANGED extVars

\* The user presses approve on one of the delivered recommendations:
\* handleCallback splits the callback_data and calls
\* orchestrator.executeAction(param).
press_approve(q) ==
  \E p \in Procs :
    /\ pc[p] = "delivered"
    /\ \E i \in 1..Len(call[p].buttons) :
         executeAction_begin(q, call[p].buttons[i])

\* The job is complete.
reportJob_complete(p) ==
  /\ pc[p] = "delivered"
  /\ \A q \in Pressers : pc[q] \in {"idle", "done"}
  /\ pc' = [pc EXCEPT ![p] = "idle"]
  /\ call' = [call EXCEPT ![p] = NoCall]
  /\ UNCHANGED <<actionVars, focusVars>>
  /\ UNCHANGED extVars

----
Init ==
  /\ pending_actions = [id \in ActionIds |-> NoAction]
  /\ now = 0
  /\ apiCalls = [id \in ActionIds |-> 0]
  /\ experiments = [id \in ActionIds |-> 0]
  /\ campaigns = {[id |-> c, yandex_id |-> YandexIdOf(c)] : c \in CampaignIds}
  /\ proposals = [i \in ProposalIds |->
       IF i = 1 THEN [status |-> "draft", conversation_id |-> 1] ELSE NoProposal]
  /\ conversations = [c \in ConvIds |->
       IF c = 1
         THEN [type |-> "proposal", campaign_id |-> NoId, proposal_id |-> 1,
               status |-> "active", summary |-> NULL]
         ELSE NoConversation]
  /\ messages = [c \in ConvIds |-> IF c = 1 THEN <<"user", "assistant">> ELSE <<>>]
  /\ user_sessions = [u \in Users |-> NoSession]
  /\ knowledge_base = [c \in ConvIds |-> 0]
  /\ learnings = [c \in ConvIds |-> 0]
  /\ summarizeCalls = [c \in ConvIds |-> 0]
  /\ pc = [p \in Procs |-> "idle"]
  /\ call = [p \in Procs |-> NoCall]
  /\ wpc = [w \in Workers |-> "idle"]
  /\ wcall = [w \in Workers |-> NoWCall]
  /\ history = NoHistory
  /\ daily_stats = {}
  /\ applied = [k \in CampaignIds \X Dates |-> NoInput]

\* Calls made one after another: a call begins only when no other is running.
Next ==
  \/ createAction
  \/ Tick
  \/ \E p \in Procs, id \in ActionIds : AllIdle /\ executeAction_begin(p, id)
  \/ \E p \in Procs, id \in ActionIds : AllIdle /\ rejectAction_begin(p, id)
  \/ \E p \in Procs : executeAction_findById(p)
  \/ \E p \in Procs : AM_executeAction_load(p)
  \/ \E p \in Procs : AM_executeAction_expire(p)
  \/ \E p \in Procs : AM_executeAction_approve(p)
  \/ \E p \in Procs : AM_executeAction_dispatch(p)
  \/ \E p \in Procs : AM_executeAction_executed(p)
  \/ \E p \in Procs : AM_executeAction_failed(p)
  \/ \E p \in Procs : executeAction_log(p)
  \/ \E p \in Procs : executeAction_catch(p)
  \/ \E p \in Procs : AM_rejectAction(p)
  \/ \E p \in Procs : call_settle(p)

Spec == Init /\ [][Next]_vars

\* Focus switches and messages, one call after another.
NextFocus ==
  \/ \E c \in ConvIds : addMessage(c, TurnRole(c))
  \/ \E p \in Procs, u \in Users, y \in YandexIds :
       AllIdle /\ focus_begin(p, "setCurrentCampaign", u, y)
  \/ \E p \in Procs, u \in Users, i \in ProposalArgs :
       AllIdle /\ focus_begin(p, "setCurrentProposal", u, i)
  \/ \E p \in Procs, u \in Users :
       AllIdle /\ focus_begin(p, "clearCurrentContext", u, 0)
  \/ \E p \in Procs : archive_getSession(p)
  \/ \E p \in Procs : archive_getMessages(p)
  \/ \E p \in Procs : archive_summarize(p)
  \/ \E p \in Procs : archive_finalize(p)
  \/ \E p \in Procs : archive_addKnowledge(p)
  \/ \E p \in Procs : archive_saveLearning(p)
  \/ \E p \in Procs : archive_catch(p)
  \/ \E p \in Procs : setCurrentCampaign_find(p)
  \/ \E p \in Procs : setCurrentProposal_find(p)
  \/ \E p \in Procs : getOrCreateConversation_find(p)
  \/ \E p \in Procs : getOrCreateConversation_insert(p)
  \/ \E p \in Procs : focus_updateSession(p)
  \/ \E p \in Procs : focus_return(p)
  \/ \E p \in Procs : call_settle(p)

SpecFocus == Init /\ [][NextFocus]_vars

\* Focus switches and messages, long enough for a conversation to reach
\* archiveCurrentConversation twice.
NextRefocus ==
  \/ \E c \in ConvIds : addMessage(c, TurnRole(c))
  \/ \E p \in Procs, u \in Users, y \in YandexIds :
       AllIdle /\ focus_again(p, "setCurrentCampaign", u, y)
  \/ \E p \in Procs, u \in Users, i \in ProposalArgs :
       AllIdle /\ focus_again(p, "setCurrentProposal", u, i)
  \/ \E p \in Procs, u \in Users :
       AllIdle /\ focus_again(p, "clearCurrentContext", u, 0)
  \/ \E p \in Procs : archive_getSession(p)
  \/ \E p \in Procs : archive_getMessages(p)
  \/ \E p \in Procs : archive_summarize(p)
  \/ \E p \in Procs : archive_finalize(p)
  \/ \E p \in Procs : archive_addKnowledge(p)
  \/ \E p \in Procs : archive_saveLearning(p)
  \/ \E p \in Procs : archive_catch(p)
  \/ \E p \in Procs : setCurrentCampaign_find(p)
  \/ \E p \in Procs : setCurrentProposal_find(p)
  \/ \E p \in Procs : getOrCreateConversation_find(p)
  \/ \E p \in Procs : getOrCreateConversation_insert(p)
  \/ \E p \in Procs : focus_updateSession(p)
  \/ \E p \in Procs : focus_return(p)
  \/ \E p \in Procs : call_settle(p)

SpecRefocus == Init /\ [][NextRefocus]_vars

\* The store before any conversation is created.
InitConv ==
  /\ pending_actions = [id \in ActionIds |-> NoAction]
  /\ now = 0
  /\ apiCalls = [id \in ActionIds |-> 0]
  /\ experiments = [id \in ActionIds |-> 0]
  /\ campaigns = {[id |-> c, yandex_id |-> YandexIdOf(c)] : c \in CampaignIds}
  /\ proposals = [i \in ProposalIds |-> NoProposal]
  /\ conversations = [c \in ConvIds |-> NoConversation]
  /\ messages = [c \in ConvIds |-> <<>>]
  /\ user_sessions = [u \in Users |-> NoSession]
  /\ knowledge_base = [c \in ConvIds |-> 0]
  /\ learnings = [c \in ConvIds |-> 0]
  /\ summarizeCalls = [c \in ConvIds |-> 0]
  /\ pc = [p \in Procs |-> "idle"]
  /\ call = [p \in Procs |-> NoCall]
  /\ wpc = [w \in Workers |-> "idle"]
  /\ wcall = [w \in Workers |-> NoWCall]
  /\ history = NoHistory
  /\ daily_stats = {}
  /\ applied = [k \in CampaignIds \X Dates |-> NoInput]

\* No ContextManager call is running or waiting to settle.
WorkersQuiet == \A q \in Workers : wpc[q] = "idle"

\* Workers calling getOrCreateConversation and finalizeConversation, their
\* calls free to overlap.
NextConv ==
  \/ \E w \in Workers, k \in ConvKeys : goc_begin(w, k)
  \/ \E w \in Workers : goc_find(w)
  \/ \E w \in Workers : goc_messages(w)
  \/ \E w \in Workers : goc_insert(w)
  \/ \E w \in Workers, id \in ConvIds : cm_finalizeConversation(w, id)
  \/ \E w \in Workers : worker_settle(w)

SpecConv == InitConv /\ [][NextConv]_vars

\* The same calls, none beginning while another is running.
NextConvSeq ==
  \/ \E c \in ConvIds : WorkersQuiet /\ addMessage(c, TurnRole(c))
  \/ \E w \in Workers, k \in ConvKeys : WorkersQuiet /\ goc_begin(w, k)
  \/ \E w \in Workers : goc_find(w)
  \/ \E w \in Workers : goc_messages(w)
  \/ \E w \in Workers : goc_insert(w)
  \/ \E w \in Workers, id \in ConvIds :
       WorkersQuiet /\ cm_finalizeConversation(w, id)
  \/ \E w \in Workers : worker_settle(w)

SpecConvSeq == InitConv /\ [][NextConvSeq]_vars

\* Jobs saving statistics, free to interleave at every await.
NextStats ==
  \/ \E w \in Workers : saveStats_begin(w)
  \/ \E w \in Workers, c \in CampaignIds : saveStats_campaign(w, YandexIdOf(c))
  \/ \E w \in Workers, d \in Dates, f \in StatFigures : saveStats_upsert(w, d, f)
  \/ \E w \in Workers : worker_settle(w)

SpecStats == Init /\ [][NextStats]_vars

\* A store of campaigns and proposals out of the catalogues, no
\* conversation yet, every user without a session or with one that has the
\* first campaign in focus.
InitQuestion ==
  /\ pending_actions = [id \in ActionIds |-> NoAction]
  /\ now = 0
  /\ apiCalls = [id \in ActionIds |-> 0]
  /\ experiments = [id \in ActionIds |-> 0]
  /\ \E n \in 0..MaxCatalogue : campaigns = CatalogueOf(n)
  /\ \E m \in {0, Len(ProposalCatalogue)} : proposals = ProposalsOf(m)
  /\ conversations = [c \in ConvIds |-> NoConversation]
  /\ messages = [c \in ConvIds |-> <<>>]
  /\ user_sessions \in
       [Users -> {NoSession} \cup
          {[exists |-> TRUE, current_conversation_id |-> NoId,
            current_campaign_id |-> r.id] : r \in {x \in campaigns : x.id = 1}}]
  /\ knowledge_base = [c \in ConvIds |-> 0]
  /\ learnings = [c \in ConvIds |-> 0]
  /\ summarizeCalls = [c \in ConvIds |-> 0]
  /\ pc = [p \in Procs |-> "idle"]
  /\ call = [p \in Procs |-> NoCall]
  /\ wpc = [w \in Workers |-> "idle"]
  /\ wcall = [w \in Workers |-> NoWCall]
  /\ history = NoHistory
  /\ daily_stats = {}
  /\ applied = [k \in CampaignIds \X Dates |-> NoInput]

\* Questions of users, one call after another.
NextQuestion ==
  \/ \E p \in Procs, u \in Users : hq_begin(p, u)
  \/ \E p \in Procs : hq_classify(p)
  \/ \E p \in Procs : dc_campaign(p)
  \/ \E p \in Procs : dc_proposal(p)
  \/ \E p \in Procs : dc_fallback(p)
  \/ \E p \in Procs : bc_session(p)
  \/ \E p \in Procs : bc_campaign(p)
  \/ \E p \in Procs : hq_goc_find(p)
  \/ \E p \in Procs : hq_goc_messages(p)
  \/ \E p \in Procs : hq_goc_insert(p)
  \/ \E p \in Procs : hq_user_msg(p)
  \/ \E p \in Procs : hq_answer(p)
  \/ \E p \in Procs : hq_assistant_msg(p)
  \/ \E p \in Procs : hq_update(p)
  \/ \E p \in Procs : call_settle(p)

SpecQuestion == InitQuestion /\ [][NextQuestion]_vars

\* A store of campaigns and of proposals in any status, no conversation.
InitProposal ==
  /\ pending_actions = [id \in ActionIds |-> NoAction]
  /\ now = 0
  /\ apiCalls = [id \in ActionIds |-> 0]
  /\ experiments = [id \in ActionIds |-> 0]
  /\ campaigns = CatalogueOf(NumCampaigns)
  /\ proposals \in [ProposalIds -> ProposalRows \cup {NoProposal}]
  /\ conversations = [c \in ConvIds |-> NoConversation]
  /\ messages = [c \in ConvIds |-> <<>>]
  /\ user_sessions = [u \in Users |-> NoSession]
  /\ knowledge_base = [c \in ConvIds |-> 0]
  /\ learnings = [c \in ConvIds |-> 0]
  /\ summarizeCalls = [c \in ConvIds |-> 0]
  /\ pc = [p \in Procs |-> "idle"]
  /\ call = [p \in Procs |-> NoCall]
  /\ wpc = [w \in Workers |-> "idle"]
  /\ wcall = [w \in Workers |-> NoWCall]
  /\ history = NoHistory
  /\ daily_stats = {}
  /\ applied = [k \in CampaignIds \X Dates |-> NoInput]

\* Proposals approved, one call after another.
NextProposal ==
  \/ \E p \in Procs, i \in ProposalArgs : approveProposal_begin(p, i)
  \/ \E p \in Procs : approveProposal_getById(p)
  \/ \E p \in Procs : approveProposal_createCampaign(p)
  \/ \E p \in Procs : approveProposal_upsert(p)
  \/ \E p \in Procs : approveProposal_update(p)
  \/ \E p \in Procs : approveProposal_log(p)
  \/ \E p \in Procs : call_settle(p)

SpecProposal == InitProposal /\ [][NextProposal]_vars

\* The store before any proposal is generated.
InitGenerate ==
  /\ pending_actions = [id \in ActionIds |-> NoAction]
  /\ now = 0
  /\ apiCalls = [id \in ActionIds |-> 0]
  /\ experiments = [id \in ActionIds |-> 0]
  /\ campaigns = CatalogueOf(NumCampaigns)
  /\ proposals = [i \in GeneratedIds |-> NoProposal]
  /\ conversations = [c \in ConvIds |-> NoConversation]
  /\ messages = [c \in ConvIds |-> <<>>]
  /\ user_sessions = [u \in Users |-> NoSession]
  /\ knowledge_base = [c \in ConvIds |-> 0]
  /\ learnings = [c \in ConvIds |-> 0]
  /\ summarizeCalls = [c \in ConvIds |-> 0]
  /\ pc = [p \in Procs |-> "idle"]
  /\ call = [p \in Procs |-> NoCall]
  /\ wpc = [w \in Workers |-> "idle"]
  /\ wcall = [w \in Workers |-> NoWCall]
  /\ history = NoHistory
  /\ daily_stats = {}
  /\ applied = [k \in CampaignIds \X Dates |-> NoInput]

\* Proposals generated, one call after another.
NextGenerate ==
  \/ \E p \in Procs, u \in Users : generateCampaignProposal_begin(p, u)
  \/ \E p \in Procs : generateCampaignProposal_getSession(p)
  \/ \E p \in Procs : generateCampaignProposal_generate(p)
  \/ \E p \in Procs : generateCampaignProposal_goc_find(p)
  \/ \E p \in Procs : generateCampaignProposal_goc_messages(p)
  \/ \E p \in Procs : generateCampaignProposal_goc_insert(p)
  \/ \E p \in Procs : generateCampaignProposal_create(p)
  \/ \E p \in Procs : generateCampaignProposal_link(p)
  \/ \E p \in Procs : generateCampaignProposal_user_msg(p)
  \/ \E p \in Procs : generateCampaignProposal_assistant_msg(p)
  \/ \E p \in Procs : generateCampaignProposal_focus(p)
  \/ \E p \in Procs : call_settle(p)

SpecGenerate == InitGenerate /\ [][NextGenerate]_vars

\* The store before any daily report.
InitReport ==
  /\ pending_actions = [id \in ReportActionIds |-> NoAction]
  /\ now = 0
  /\ apiCalls = [id \in ActionIds |-> 0]
  /\ experiments = [id \in ActionIds |-> 0]
  /\ campaigns = CatalogueOf(NumCampaigns)
  /\ proposals = [i \in ProposalIds |-> NoProposal]
  /\ conversations = [c \in ConvIds |-> NoConversation]
  /\ messages = [c \in ConvIds |-> <<>>]
  /\ user_sessions = [u \in Users |-> NoSession]
  /\ knowledge_base = [c \in ConvIds |-> 0]
  /\ learnings = [c \in ConvIds |-> 0]
  /\ summarizeCalls = [c \in ConvIds |-> 0]
  /\ pc = [p \in Procs |-> "idle"]
  /\ call = [p \in Procs |-> NoCall]
  /\ wpc = [w \in Workers |-> "idle"]
  /\ wcall = [w \in Workers |-> NoWCall]
  /\ history = NoHistory
  /\ daily_stats = {}
  /\ applied = [k \in CampaignIds \X Dates |-> NoInput]

\* Daily reports, one call after another.
NextReport ==
  \/ \E p \in Procs, n \in BOOLEAN : generateDailyReport_begin(p, n)
  \/ \E p \in Procs : generateDailyReport_getStats(p)
  \/ \E p \in Procs : generateDailyReport_saveStats(p)
  \/ \E p \in Procs : generateDailyReport_analyze(p)
  \/ \E p \in Procs : generateDailyReport_propose(p)
  \/ \E p \in Procs : generateDailyReport_card(p)
  \/ \E p \in Procs : generateDailyReport_format(p)
  \/ \E p \in Procs : generateDailyReport_send(p)
  \/ \E p \in Procs : call_settle(p)

SpecReport == InitReport /\ [][NextReport]_vars

\* Evening analyses, one call after another, on the store the reports
\* start from.
NextEvening ==
  \/ \E p \in Procs : runEveningAnalysis_begin(p)
  \/ \E p \in Procs : runEveningAnalysis_getStats(p)
  \/ \E p \in Procs : runEveningAnalysis_prepare(p)
  \/ \E p \in Procs : runEveningAnalysis_analyze(p)
  \/ \E p \in Procs : runEveningAnalysis_send(p)
  \/ \E p \in Procs : call_settle(p)

SpecEvening == InitReport /\ [][NextEvening]_vars

\* Syncs, one call after another, on the store the reports start from.
NextSync ==
  \/ \E p \in Procs : syncYandexData_begin(p)
  \/ \E p \in Procs : syncYandexData_getCampaigns(p)
  \/ \E p \in Procs : syncYandexData_bidModifiers(p)
  \/ \E p \in Procs : syncYandexData_upsert(p)
  \/ \E p \in Procs : syncYandexData_keywords(p)
  \/ \E p \in Procs : syncYandexData_getStats(p)
  \/ \E p \in Procs : syncYandexData_saveStats(p)
  \/ \E p \in Procs : call_settle(p)

SpecSync == InitReport /\ [][NextSync]_vars

\* Jobs of the two queues, one after another.
NextWorker ==
  \/ \E p \in Procs, kind \in JobKinds, chatId \in Chats : job_begin(p, kind, chatId)
  \/ \E p \in Procs : job_call(p)
  \/ \E p \in Procs : job_send(p)
  \/ \E p \in Procs : job_catch(p)
  \/ \E p \in Procs : call_settle(p)

SpecWorker == InitReport /\ [][NextWorker]_vars

\* Every action is pending, its card is on screen, no click is in flight.
InitClicks ==
  /\ pending_actions = [id \in ActionIds |-> [status |-> "pending", created_at |-> 0]]
  /\ now = 0
  /\ apiCalls = [id \in ActionIds |-> 0]
  /\ experiments = [id \in ActionIds |-> 0]
  /\ campaigns = CatalogueOf(NumCampaigns)
  /\ proposals = [i \in ProposalIds |-> NoProposal]
  /\ conversations = [c \in ConvIds |-> NoConversation]
  /\ messages = [c \in ConvIds |-> <<>>]
  /\ user_sessions = [u \in Users |-> NoSession]
  /\ knowledge_base = [c \in ConvIds |-> 0]
  /\ learnings = [c \in ConvIds |-> 0]
  /\ summarizeCalls = [c \in ConvIds |-> 0]
  /\ pc = [p \in Clicks |-> "idle"]
  /\ call = [p \in Clicks |-> NoCall]
  /\ wpc = [w \in Workers |-> "idle"]
  /\ wcall = [w \in Workers |-> NoWCall]
  /\ history = NoHistory
  /\ daily_stats = {}
  /\ applied = [k \in CampaignIds \X Dates |-> NoInput]

\* Clicks on approve, one executeAction call each, the calls interleaved at
\* every await.
NextClicks ==
  \/ Tick
  \/ \E p \in Clicks, id \in ActionIds : executeAction_begin(p, id)
  \/ \E p \in Clicks : executeAction_findById(p)
  \/ \E p \in Clicks : AM_executeAction_load(p)
  \/ \E p \in Clicks : AM_executeAction_expire(p)
  \/ \E p \in Clicks : AM_executeAction_approve(p)
  \/ \E p \in Clicks : AM_executeAction_dispatch(p)
  \/ \E p \in Clicks : AM_executeAction_executed(p)
  \/ \E p \in Clicks : AM_executeAction_failed(p)
  \/ \E p \in Clicks : executeAction_log(p)
  \/ \E p \in Clicks : executeAction_catch(p)

SpecClicks == InitClicks /\ [][NextClicks]_vars

\* Presses of the approve and reject buttons, handled one after another.
NextButtons ==
  \/ Tick
  \/ \E p \in Clicks, id \in ActionIds : handleCallback_approve(p, id)
  \/ \E p \in Clicks, id \in ActionIds : handleCallback_reject(p, id)
  \/ \E p \in Clicks : executeAction_findById(p)
  \/ \E p \in Clicks : AM_executeAction_load(p)
  \/ \E p \in Clicks : AM_executeAction_expire(p)
  \/ \E p \in Clicks : AM_executeAction_approve(p)
  \/ \E p \in Clicks : AM_executeAction_dispatch(p)
  \/ \E p \in Clicks : AM_executeAction_executed(p)
  \/ \E p \in Clicks : AM_executeAction_failed(p)
  \/ \E p \in Clicks : executeAction_log(p)
  \/ \E p \in Clicks : executeAction_catch(p)

SpecButtons == InitClicks /\ [][NextButtons]_vars

InitDelivered ==
  /\ pending_actions = [id \in ReportActionIds |-> NoAction]
  /\ now = 0
  /\ apiCalls = [id \in ReportActionIds |-> 0]
  /\ experiments = [id \in ReportActionIds |-> 0]
  /\ campaigns = CatalogueOf(NumCampaigns)
  /\ proposals = [i \in ProposalIds |-> NoProposal]
  /\ conversations = [c \in ConvIds |-> NoConversation]
  /\ messages = [c \in ConvIds |-> <<>>]
  /\ user_sessions = [u \in Users |-> NoSession]
  /\ knowledge_base = [c \in ConvIds |-> 0]
  /\ learnings = [c \in ConvIds |-> 0]
  /\ summarizeCalls = [c \in ConvIds |-> 0]
  /\ pc = [p \in Procs \cup Pressers |-> "idle"]
  /\ call = [p \in Procs \cup Pressers |-> NoCall]
  /\ wpc = [w \in Workers |-> "idle"]
  /\ wcall = [w \in Workers |-> NoWCall]
  /\ history = NoHistory
  /\ daily_stats = {}
  /\ applied = [k \in CampaignIds \X Dates |-> NoInput]

\* The scheduler's daily report, the reports worker's daily job, and the
\* approve button of a recommendation the job delivered.
NextDelivered ==
  \/ \E p \in Procs : generateDailyReport_begin(p, TRUE)
  \/ \E p \in Procs : reportJob_begin(p)
  \/ \E p \in Procs : generateDailyReport_getStats(p)
  \/ \E p \in Procs : generateDailyReport_saveStats(p)
  \/ \E p \in Procs : generateDailyReport_analyze(p)
  \/ \E p \in Procs : generateDailyReport_propose(p)
  \/ \E p \in Procs : generateDailyReport_card(p)
  \/ \E p \in Procs : generateDailyReport_format(p)
  \/ \E p \in Procs : generateDailyReport_send(p)
  \/ \E p \in Procs : call_settle(p)
  \/ \E p \in Procs : reportJob_sendText(p)
  \/ \E p \in Procs : reportJob_sendRecommendation(p)
  \/ \E p \in Procs : reportJob_complete(p)
  \/ \E q \in Pressers : press_approve(q)
  \/ \E q \in Pressers : executeAction_findById(q)
  \/ \E q \in Pressers : AM_executeAction_load(q)
  \/ \E q \in Pressers : AM_executeAction_approve(q)
  \/ \E q \in Pressers : AM_executeAction_dispatch(q)
  \/ \E q \in Pressers : AM_executeAction_executed(q)
  \/ \E q \in Pressers : AM_executeAction_failed(q)
  \/ \E q \in Pressers : executeAction_log(q)
  \/ \E q \in Pressers : executeAction_catch(q)

SpecDelivered == InitDelivered /\ [][NextDelivered]_vars

InitApprovals ==
  /\ pending_actions = [id \in ActionIds |-> NoAction]
  /\ now = 0
  /\ apiCalls = [id \in ActionIds |-> 0]
  /\ experiments = [id \in ActionIds |-> 0]
  /\ campaigns = CatalogueOf(NumCampaigns)
  /\ proposals \in [ProposalIds -> ProposalRows \cup {NoProposal}]
  /\ conversations = [c \in ConvIds |-> NoConversation]
  /\ messages = [c \in ConvIds |-> <<>>]
  /\ user_sessions = [u \in Users |-> NoSession]
  /\ knowledge_base = [c \in ConvIds |-> 0]
  /\ learnings = [c \in ConvIds |-> 0]
  /\ summarizeCalls = [c \in ConvIds |-> 0]
  /\ pc = [p \in Clicks |-> "idle"]
  /\ call = [p \in Clicks |-> NoCall]
  /\ wpc = [w \in Workers |-> "idle"]
  /\ wcall = [w \in Workers |-> NoWCall]
  /\ history = NoHistory
  /\ daily_stats = {}
  /\ applied = [k \in CampaignIds \X Dates |-> NoInput]

\* Two approveProposal calls, at once or one after the other.
NextApprovals ==
  \/ \E p \in Clicks, i \in ProposalArgs : approveProposal_enter(p, i)
  \/ \E p \in Clicks : approveProposal_getById(p)
  \/ \E p \in Clicks : approveProposal_createCampaign(p)
  \/ \E p \in Clicks : approveProposal_upsert(p)
  \/ \E p \in Clicks : approveProposal_upsert_rejects(p)
  \/ \E p \in Clicks : approveProposal_update(p)
  \/ \E p \in Clicks : approveProposal_log(p)

SpecApprovals == InitApprovals /\ [][NextApprovals]_vars

InitAskers ==
  /\ pending_actions = [id \in ActionIds |-> NoAction]
  /\ now = 0
  /\ apiCalls = [id \in ActionIds |-> 0]
  /\ experiments = [id \in ActionIds |-> 0]
  /\ campaigns = CatalogueOf(NumCampaigns)
  /\ proposals = ProposalsOf(0)
  /\ conversations = [c \in ConvIds |-> NoConversation]
  /\ messages = [c \in ConvIds |-> <<>>]
  /\ user_sessions = [u \in Users |-> NoSession]
  /\ knowledge_base = [c \in ConvIds |-> 0]
  /\ learnings = [c \in ConvIds |-> 0]
  /\ summarizeCalls = [c \in ConvIds |-> 0]
  /\ pc = [p \in Askers |-> "idle"]
  /\ call = [p \in Askers |-> NoCall]
  /\ wpc = [w \in Workers |-> "idle"]
  /\ wcall = [w \in Workers |-> NoWCall]
  /\ history = NoHistory
  /\ daily_stats = {}
  /\ applied = [k \in CampaignIds \X Dates |-> NoInput]

\* Two handleUserQuestion calls, interleaved at every await.
NextAskers ==
  \/ \E p \in Askers, u \in Users : hq_enter(p, u)
  \/ \E p \in Askers : hq_classify(p)
  \/ \E p \in Askers : dc_campaign(p)
  \/ \E p \in Askers : dc_proposal(p)
  \/ \E p \in Askers : dc_fallback(p)
  \/ \E p \in Askers : bc_session(p)
  \/ \E p \in Askers : bc_campaign(p)
  \/ \E p \in Askers : hq_goc_find(p)
  \/ \E p \in Askers : hq_goc_messages(p)
  \/ \E p \in Askers : hq_goc_insert(p)
  \/ \E p \in Askers : hq_user_msg(p)
  \/ \E p \in Askers : hq_answer(p)
  \/ \E p \in Askers : hq_assistant_msg(p)
  \/ \E p \in Askers : hq_update(p)

SpecAskers == InitAskers /\ [][NextAskers]_vars

\* A campaign chosen as the focus, and questions asked, one call after
\* another.
NextFocusQuestion ==
  \/ \E p \in Procs, u \in Users, y \in YandexIds :
       AllIdle /\ focus_begin(p, "setCurrentCampaign", u, y)
  \/ \E p \in Procs : archive_getSession(p)
  \/ \E p \in Procs : archive_getMessages(p)
  \/ \E p \in Procs : archive_summarize(p)
  \/ \E p \in Procs : archive_finalize(p)
  \/ \E p \in Procs : archive_addKnowledge(p)
  \/ \E p \in Procs : archive_saveLearning(p)
  \/ \E p \in Procs : archive_catch(p)
  \/ \E p \in Procs : setCurrentCampaign_find(p)
  \/ \E p \in Procs : getOrCreateConversation_find(p)
  \/ \E p \in Procs : getOrCreateConversation_insert(p)
  \/ \E p \in Procs : focus_updateSession(p)
  \/ \E p \in Procs : focus_return(p)
  \/ \E p \in Procs, u \in Users : hq_begin(p, u)
  \/ \E p \in Procs : hq_classify(p)
  \/ \E p \in Procs : dc_campaign(p)
  \/ \E p \in Procs : dc_proposal(p)
  \/ \E p \in Procs : dc_fallback(p)
  \/ \E p \in Procs : bc_session(p)
  \/ \E p \in Procs : bc_campaign(p)
  \/ \E p \in Procs : hq_goc_find(p)
  \/ \E p \in Procs : hq_goc_messages(p)
  \/ \E p \in Procs : hq_goc_insert(p)
  \/ \E p \in Procs : hq_user_msg(p)
  \/ \E p \in Procs : hq_answer(p)
  \/ \E p \in Procs : hq_assistant_msg(p)
  \/ \E p \in Procs : hq_update(p)
  \/ \E p \in Procs : call_settle(p)

SpecFocusQuestion == InitReport /\ [][NextFocusQuestion]_vars

\* prepareCampaignData applied to inputs of every shape.
NextPrepare ==
  \/ \E p \in Procs, cur \in CurrentStats, prev \in PreviousStats :
       prepareCampaignData_begin(p, cur, prev)
  \/ \E p \in Procs : prepareCampaignData_return(p)
  \/ \E p \in Procs : call_settle(p)

SpecPrepare == InitReport /\ [][NextPrepare]_vars

----
(***************************************************************************)
(* Action Manager properties                                               *)
(***************************************************************************)

AllowedTransitions ==
  { <<NULL, "pending">>,
    <<"pending", "approved">>, <<"pending", "rejected">>,
    <<"approved", "executed">>, <<"approved", "failed">> }

\* C1: every action starts in status pending and its status only ever changes
\* along pending->approved, pending->rejected, approved->executed or
\* approved->failed; an executed, failed or rejected action never changes
\* status again.
C1_MonotonicTransitions ==
  [][\A id \in ActionIds :
       pending_actions'[id].status # pending_actions[id].status
         => <<pending_actions[id].status, pending_actions'[id].status>>
              \in AllowedTransitions]_vars

Finished(p, op) == pc[p] = "done" /\ call[p].op = op

C3_NoReExecution ==
  /\ \A id \in ActionIds : apiCalls[id] <= 1
  /\ \A p \in Procs :
       (call[p].op = "executeAction" /\ call[p].pre \in TerminalStatus)
         => /\ call[p].api = 0
            /\ StatusOf(call[p].id) = call[p].pre
            /\ pc[p] = "done" => call[p].post = call[p].pre

C3_Witness ==
  \E p \in Procs :
    /\ Finished(p, "executeAction")
    /\ call[p].pre = "executed"
    /\ apiCalls[call[p].id] = 1

\* C4: an action executed within the window whose platform call succeeded
\* has status executed and exactly one audit entry in the experiments log,
\* also after further executeAction calls on it.
C4_ExactlyOneAuditEntry ==
  \A id \in ActionIds :
    (AllIdle /\ StatusOf(id) = "executed") => experiments[id] = 1

\* C5: when the platform call made by executeAction fails, the call ends
\* with the status failed and the error propagated to the caller, and the
\* call appends no audit entry.
C5_FailurePropagates ==
  \A p \in Procs :
    (call[p].op = "executeAction" /\ call[p].apiFailed)
      => /\ call[p].logged = 0
         /\ pc[p] = "done" =>
              /\ call[p].result = "UpstreamFailure"
              /\ call[p].post = "failed"

C5_Witness ==
  \E p \in Procs :
    /\ Finished(p, "executeAction")
    /\ call[p].apiFailed
    /\ call[p].result = "UpstreamFailure"
    /\ StatusOf(call[p].id) = "failed"
    /\ experiments[call[p].id] = 0

\* C6: after rejectAction on an existing action the status is rejected,
\* whatever it was before the call.
C6_RejectUnconditional ==
  \A p \in Procs :
    (Finished(p, "rejectAction") /\ call[p].pre # NULL)
      => call[p].post = "rejected"

C6_Witness ==
  \E p \in Procs :
    /\ Finished(p, "rejectAction")
    /\ call[p].pre = "executed"
    /\ call[p].post = "rejected"

----
(***************************************************************************)
(* Session focus properties                                                *)
(***************************************************************************)

Returned(p, op) ==
  pc[p] = "done" /\ call[p].op = op /\ call[p].result = "ok"

\* C7: no user session has both currentCampaignId and currentProposalId
\* set; after setCurrentCampaign the session's currentProposalId is null,
\* after setCurrentProposal its currentCampaignId is null, and after
\* clearCurrentContext both are null.
C7_FocusPointersExclusive ==
  /\ \A u \in Users :
       ~ (getSession(u).currentCampaignId # NoId
            /\ getSession(u).currentProposalId # NoId)
  /\ \A p \in Procs :
       /\ Returned(p, "setCurrentCampaign")
            => call[p].session.currentProposalId = NoId
       /\ Returned(p, "setCurrentProposal")
            => call[p].session.currentCampaignId = NoId
       /\ Returned(p, "clearCurrentContext")
            => /\ call[p].session.currentCampaignId = NoId
               /\ call[p].session.currentProposalId = NoId

C7_Witness ==
  \E p \in Procs :
    /\ Returned(p, "setCurrentProposal")
    /\ call[p].preCampaign # NoId
    /\ getSession(call[p].user).currentCampaignId = NoId

PointersOf(row) == <<row.current_campaign_id, row.current_conversation_id>>

\* The archive step of call p has run to completion: it returned, it
\* skipped the summary only for a conversation of fewer than 2 messages,
\* and when it summarized, the conversation is archived with its summary
\* and every extracted fact is written.
ArchiveComplete(p) ==
  /\ call[p].archive \in {"skipped", "done", "failed"}
  /\ call[p].archive = "skipped" => call[p].preMsgs < 2
  /\ call[p].archive = "done" =>
       /\ conversations[call[p].preConv].status = "archived"
       /\ conversations[call[p].preConv].summary # NULL
       /\ call[p].facts = 0

\* C8: in setCurrentCampaign, setCurrentProposal and clearCurrentContext a
\* session pointer is changed only by a call whose archive step has run to
\* completion.
C8_ArchiveBeforeSwitch ==
  [][\A u \in Users :
       PointersOf(user_sessions'[u]) # PointersOf(user_sessions[u])
         => \E p \in Procs :
              /\ call[p].user = u
              /\ call[p].op \in FocusOps
              /\ pc[p] = "cm_update"
              /\ ArchiveComplete(p)]_vars

C8_Witness ==
  \E p \in Procs :
    /\ pc[p] = "done" /\ call[p].op \in FocusOps /\ call[p].result = "ok"
    /\ call[p].archive = "done"
    /\ call[p].preMsgs >= 2
    /\ conversations[call[p].preConv].status = "archived"
    /\ call[p].session.currentConversationId # call[p].preConv

\* C9: a focus switch whose current conversation holds fewer than 2
\* messages, or that has no current conversation, makes no
\* summarizeConversation call and writes no summary and no knowledge fact.
C9_ShortConversationNotSummarized ==
  \A p \in Procs :
    (call[p].op \in FocusOps /\ call[p].preMsgs < 2)
      => /\ call[p].summarized = 0
         /\ call[p].wrote = 0
         /\ call[p].preConv # NoId =>
              /\ conversations[call[p].preConv].summary = NULL
              /\ knowledge_base[call[p].preConv] = 0
              /\ summarizeCalls[call[p].preConv] = 0

C9_Witness ==
  \E p \in Procs :
    /\ Returned(p, "clearCurrentContext")
    /\ call[p].preConv # NoId
    /\ call[p].preMsgs = 1
    /\ call[p].archive = "skipped"
    /\ summarizeCalls[call[p].preConv] = 0

\* The session holds the focus that call p asked for: the campaign and one
\* of its conversations, the proposal's conversation with no campaign, or a
\* general conversation with no campaign.
RequestedFocus(p) ==
  LET s == call[p].session
      c == s.currentConversationId
  IN  CASE call[p].op = "setCurrentCampaign" ->
             /\ \E r \in campaigns :
                  r.yandex_id = call[p].arg /\ s.currentCampaignId = r.id
             /\ c # NoId
             /\ conversations[c].type = "campaign_analysis"
             /\ conversations[c].campaign_id = s.currentCampaignId
        [] call[p].op = "setCurrentProposal" ->
             /\ s.currentCampaignId = NoId
             /\ c = proposals[call[p].arg].conversation_id
        [] call[p].op = "clearCurrentContext" ->
             /\ s.currentCampaignId = NoId
             /\ s.currentProposalId = NoId
             /\ c # NoId
             /\ conversations[c].type = "general"

TargetExists(p) ==
  CASE call[p].op = "setCurrentCampaign" ->
         \E r \in campaigns : r.yandex_id = call[p].arg
    [] call[p].op = "setCurrentProposal" ->
         call[p].arg \in ProposalIds /\ proposals[call[p].arg] # NoProposal
    [] call[p].op = "clearCurrentContext" -> TRUE

----
(***************************************************************************)
(* Conversation properties                                                 *)
(***************************************************************************)

\* The active conversations whose row carries exactly key k.
ActiveOfKey(k) ==
  {c \in ConvIds :
     /\ conversations[c].status = "active"
     /\ conversations[c].type = k[1]
     /\ conversations[c].campaign_id = k[2]
     /\ conversations[c].proposal_id = k[3]}

WorkerDone(w, op) == wpc[w] = "done" /\ wcall[w].op = op

\* C11: two getOrCreateConversation calls for the same key that both found
\* no active conversation at their lookup both insert: they return two
\* different conversations of that key, so the race can leave two active
\* conversations for one key.
C11_BothMissedBothInsert ==
  \A p, q \in Workers :
    (/\ p # q
     /\ WorkerDone(p, "getOrCreateConversation")
     /\ WorkerDone(q, "getOrCreateConversation")
     /\ wcall[p].key = wcall[q].key
     /\ wcall[p].missed /\ wcall[q].missed)
      => /\ wcall[p].conv # wcall[q].conv
         /\ \A c \in {wcall[p].conv, wcall[q].conv} :
              /\ conversations[c].type = wcall[p].key[1]
              /\ conversations[c].campaign_id = wcall[p].key[2]
              /\ conversations[c].proposal_id = wcall[p].key[3]

C11_Witness ==
  \E p, q \in Workers :
    /\ p # q
    /\ WorkerDone(p, "getOrCreateConversation")
    /\ WorkerDone(q, "getOrCreateConversation")
    /\ wcall[p].key = wcall[q].key
    /\ wcall[p].missed /\ wcall[q].missed
    /\ {wcall[p].conv, wcall[q].conv} \subseteq ActiveOfKey(wcall[p].key)
    /\ Cardinality(ActiveOfKey(wcall[p].key)) = 2

\* C12: with calls that do not overlap, no two active conversations carry
\* the same (type, campaign, proposal) key, and a getOrCreateConversation
\* call that follows one of the same key with no finalizeConversation in
\* between returns the same conversation id.
C12_OneActivePerKey ==
  /\ \A c1, c2 \in ConvIds :
       (/\ conversations[c1].status = "active"
        /\ conversations[c2].status = "active"
        /\ conversations[c1].type = conversations[c2].type
        /\ conversations[c1].campaign_id = conversations[c2].campaign_id
        /\ conversations[c1].proposal_id = conversations[c2].proposal_id)
         => c1 = c2
  /\ \A w \in Workers :
       (WorkerDone(w, "getOrCreateConversation") /\ wcall[w].prev # NoId)
         => wcall[w].conv = wcall[w].prev

C12_Witness ==
  \E w \in Workers :
    /\ WorkerDone(w, "getOrCreateConversation")
    /\ wcall[w].prev # NoId
    /\ wcall[w].conv = wcall[w].prev
    /\ Cardinality(ActiveOfKey(wcall[w].key)) = 1

----
(***************************************************************************)
(* Statistics properties                                                   *)
(***************************************************************************)

\* The store holds no row for a (campaign, date) never upserted, and exactly
\* one row, carrying the columns of the last upsert executed, for the others.
OneRowLastValues ==
  \A k \in CampaignIds \X Dates :
    IF applied[k] = NoInput
      THEN Conflicting(k[1], k[2]) = {}
      ELSE /\ Cardinality(Conflicting(k[1], k[2])) = 1
           /\ \A r \in Conflicting(k[1], k[2]) : r.cols = applied[k]

\* An upsert statement whose input is the one last executed for its
\* (campaign, date) leaves the table as it was.
SameInputSameStore ==
  \A w \in Workers :
    (wpc[w] = "ss_stat" /\ wpc'[w] # "ss_stat" /\ applied' = applied)
      => daily_stats' = daily_stats

\* C14: under any interleaving of the jobs' upserts the store holds exactly
\* one row per upserted (campaign, date), with the values of the last
\* upsert applied, and an upsert of the same input twice leaves the store as
\* after one.
C14_UpsertLastWins == []OneRowLastValues /\ [][SameInputSameStore]_vars

C14_Witness ==
  \E k \in CampaignIds \X Dates, w1, w2 \in Workers :
    /\ w1 # w2
    /\ wpc[w1] = "ss_stat" /\ wcall[w1].campaign = k[1]
    /\ wpc[w2] = "ss_stat" /\ wcall[w2].campaign = k[1]
    /\ applied[k] # NoInput
    /\ applied[k].conversions = 2
    /\ Cardinality(Conflicting(k[1], k[2])) = 1

----
(***************************************************************************)
(* Question handling properties                                            *)
(***************************************************************************)

\* detectContext of call p has returned.
Detected(p) == call[p].op = "handleUserQuestion" /\ call[p].returned

\* The campaigns the campaign hint of call p matches.
CampaignHits(p) ==
  IF call[p].classification.campaign = <<>> THEN {}
  ELSE CampaignMatches(call[p].classification.campaign)

\* The proposals the proposal hint of call p matches.
ProposalHits(p) ==
  IF call[p].classification.proposal = <<>> THEN {}
  ELSE ProposalMatches(call[p].classification.proposal)

\* C15: at every confidence, a campaign hint matching exactly one campaign
\* makes detectContext bind that campaign's id and name with
\* needsClarification = false; a hint matching more than one makes it
\* return needsClarification = true, no campaign bound and
\* suggestedCampaigns exactly the matching candidates (the rows of the
\* campaign query). A proposal hint that is itself ambiguous asks for
\* clarification on its own account and is left aside.
C15_CampaignHintResolution ==
  \A p \in Procs :
    Detected(p) =>
      /\ Cardinality(CampaignHits(p)) = 1 =>
           /\ \E r \in CampaignHits(p) :
                /\ call[p].detected.campaignId = r.yandex_id
                /\ call[p].detected.campaignName = r.name
           /\ Cardinality(ProposalHits(p)) <= 1 =>
                ~ call[p].detected.needsClarification
      /\ Cardinality(CampaignHits(p)) > 1 =>
           /\ call[p].detected.needsClarification
           /\ call[p].detected.campaignId = NoId
           /\ call[p].detected.suggestedCampaigns =
                CampaignSuggestions(call[p].campaignRows)

\* Both hints of call p match nothing (or are not given).
ZeroHits(p) == CampaignHits(p) = {} /\ ProposalHits(p) = {}

\* C16: a hint that matches nothing makes detectContext return a result
\* with no campaign and no proposal bound; the result asks for
\* clarification with a menu of at most 5 active campaigns exactly when the
\* confidence is below 0.5 and an active campaign exists, and the menu
\* query runs only when nothing was bound and the confidence is below 0.5.
C16_ZeroHitsAndFallback ==
  \A p \in Procs :
    Detected(p) =>
      LET d == call[p].detected
          low == call[p].classification.confidence < LowConfidence
      IN  /\ call[p].fallback =>
               d.campaignId = NoId /\ d.proposalId = NoId /\ low
          /\ ZeroHits(p) =>
               /\ d.campaignId = NoId /\ d.proposalId = NoId
               /\ d.suggestedProposals = {}
               /\ d.needsClarification <=> (low /\ ActiveCampaigns # {})
               /\ ~ d.needsClarification => d.suggestedCampaigns = {}
               /\ d.needsClarification =>
                    /\ d.suggestedCampaigns \subseteq
                         CampaignSuggestions(ActiveCampaigns)
                    /\ Cardinality(d.suggestedCampaigns) <= SuggestLimit
                    /\ Cardinality(ActiveCampaigns) <= SuggestLimit =>
                         d.suggestedCampaigns =
                           CampaignSuggestions(ActiveCampaigns)

C16_Witness ==
  \E p \in Procs :
    /\ Detected(p)
    /\ call[p].classification.campaign # <<>>
    /\ ZeroHits(p)
    /\ call[p].classification.confidence < LowConfidence
    /\ Cardinality(ActiveCampaigns) > SuggestLimit
    /\ call[p].detected.needsClarification
    /\ Cardinality(call[p].detected.suggestedCampaigns) = SuggestLimit
    /\ call[p].detected.campaignId = NoId

\* C17: when detectContext reports needsClarification, handleUserQuestion
\* returns a clarification object carrying the suggestions, makes no
\* answerQuestion call and leaves conversations, messages and user
\* sessions as the call found them.
C17_ClarificationIsReadOnly ==
  \A p \in Procs :
    (Detected(p) /\ call[p].detected.needsClarification)
      => /\ pc[p] = "done"
         /\ call[p].result = "clarification"
         /\ call[p].answered = 0
         /\ conversations = call[p].pre.conversations
         /\ messages = call[p].pre.messages
         /\ user_sessions = call[p].pre.user_sessions

C17_Witness ==
  \E p \in Procs :
    /\ Detected(p)
    /\ call[p].detected.needsClarification
    /\ call[p].detected.suggestedProposals # {}
    /\ call[p].result = "clarification"
    /\ \E u \in Users : user_sessions[u].current_conversation_id # NoId
    /\ user_sessions = call[p].pre.user_sessions

\* The messages call p has appended so far to its conversation.
Appended(p) ==
  LET c == call[p].conv
      before == call[p].pre.messages[c]
  IN  SubSeq(messages[c], Len(before) + 1, Len(messages[c]))

\* Call p has left every message it found in place.
KeepsMessages(p) ==
  \A c \in ConvIds :
    /\ Len(messages[c]) >= Len(call[p].pre.messages[c])
    /\ SubSeq(messages[c], 1, Len(call[p].pre.messages[c]))
         = call[p].pre.messages[c]
    /\ c # call[p].conv => messages[c] = call[p].pre.messages[c]

AnswerReturned ==
  \A p \in Procs :
    (pc[p] = "done" /\ call[p].op = "handleUserQuestion"
       /\ call[p].result = "answer")
      => /\ KeepsMessages(p)
         /\ Appended(p) = <<"user", "assistant">>
         /\ user_sessions[call[p].user].current_conversation_id = call[p].conv

PointerAfterMessages ==
  \A u \in Users :
    user_sessions'[u].current_conversation_id
        # user_sessions[u].current_conversation_id
      => \E p \in Procs :
           /\ call[p].op = "handleUserQuestion" /\ call[p].user = u
           /\ KeepsMessages(p)
           /\ Appended(p) = <<"user", "assistant">>
           /\ user_sessions'[u].current_conversation_id = call[p].conv

\* C18: a handleUserQuestion call that returns an answer has appended to
\* one conversation the user's question and then the assistant's answer,
\* and the session's currentConversationId is set to that conversation only
\* by a step taken after both messages are stored.
C18_MessagesThenPointer == []AnswerReturned /\ [][PointerAfterMessages]_vars

C18_Witness ==
  \E p \in Procs :
    /\ pc[p] = "done" /\ call[p].op = "handleUserQuestion"
    /\ call[p].result = "answer"
    /\ call[p].pre.messages[call[p].conv] # <<>>
    /\ Len(messages[call[p].conv]) = Len(call[p].pre.messages[call[p].conv]) + 2
    /\ call[p].pre.user_sessions[call[p].user].current_conversation_id = NoId
    /\ user_sessions[call[p].user].current_conversation_id = call[p].conv

\* C19: when ai.classify or ai.answerQuestion fails inside
\* handleUserQuestion, the call ends with the error thrown to the caller,
\* it has appended no assistant message (only the user's question when the
\* answer failed) and the session's currentConversationId is the one the
\* call found.
C19_LlmFailurePropagates ==
  \A p \in Procs :
    (call[p].op = "handleUserQuestion"
       /\ call[p].failed \in {"classify", "answer"})
      => /\ pc[p] = "done"
         /\ call[p].result = "error"
         /\ call[p].answered = 0
         /\ \A c \in ConvIds :
              \/ messages[c] = call[p].pre.messages[c]
              \/ /\ call[p].failed = "answer"
                 /\ c = call[p].conv
                 /\ messages[c] = Append(call[p].pre.messages[c], "user")
         /\ user_sessions[call[p].user].current_conversation_id
              = call[p].pre.user_sessions[call[p].user].current_conversation_id

C19_Witness ==
  \E p \in Procs :
    /\ pc[p] = "done" /\ call[p].op = "handleUserQuestion"
    /\ call[p].failed = "answer"
    /\ call[p].result = "error"
    /\ user_sessions[call[p].user].current_conversation_id # NoId
    /\ messages[call[p].conv] =
         call[p].pre.messages[call[p].conv] \o <<"user">>

----
(***************************************************************************)
(* Proposal approval properties                                            *)
(***************************************************************************)

\* Call p found no proposal of its id, or one that is approved, rejected
\* or implemented.
NotApprovable(p) ==
  LET i == call[p].arg IN
    \/ i \notin DOMAIN call[p].pre.proposals
    \/ call[p].pre.proposals[i] = NoProposal
    \/ call[p].pre.proposals[i].status \in {"approved", "rejected", "implemented"}

\* C20: approveProposal on a proposal that is approved, rejected or
\* implemented, or that does not exist, ends with an error, calls
\* createCampaign not once and leaves the proposals and the campaign store
\* as it found them.
C20_ApproveOnlyFromDraftOrDiscussing ==
  \A p \in Procs :
    (call[p].op = "approveProposal" /\ NotApprovable(p))
      => /\ call[p].created = 0
         /\ proposals = call[p].pre.proposals
         /\ campaigns = call[p].pre.campaigns
         /\ pc[p] \in {"ap_getById", "done"}
         /\ pc[p] = "done" => call[p].result = "error"

C20_Witness ==
  \E p \in Procs :
    /\ pc[p] = "done" /\ call[p].op = "approveProposal"
    /\ call[p].arg \in DOMAIN proposals
    /\ proposals[call[p].arg].status = "approved"
    /\ proposals[call[p].arg].instruction_file.shape = "strategy"
    /\ call[p].result = "error"
    /\ call[p].created = 0

\* C21: when yandex.createCampaign fails during approveProposal, the call
\* ends with the error thrown to the caller, the proposal keeps the draft
\* or discussing status it had, no campaign row is created and no entry is
\* written to the experiments log.
C21_CreateFailureLeavesProposal ==
  \A p \in Procs :
    (call[p].op = "approveProposal" /\ call[p].failed = "createCampaign")
      => /\ pc[p] = "done"
         /\ call[p].result = "error"
         /\ proposals = call[p].pre.proposals
         /\ proposals[call[p].arg].status \in {"draft", "discussing"}
         /\ campaigns = call[p].pre.campaigns
         /\ call[p].logged = 0

C21_Witness ==
  \E p \in Procs :
    /\ pc[p] = "done" /\ call[p].op = "approveProposal"
    /\ call[p].failed = "createCampaign"
    /\ call[p].created = 1
    /\ proposals[call[p].arg].status = "discussing"

\* The plan of the proposal call p found is malformed: no campaign
\* structure or no strategy in it.
Malformed(p) ==
  call[p].pre.proposals[call[p].arg].instruction_file.shape
    \in {NULL, "no structure", "no strategy"}

\* The strategy text of the plan holds none of the words of the mapping.
Unrecognized(p) ==
  LET file == call[p].pre.proposals[call[p].arg].instruction_file IN
    /\ file.shape = "strategy"
    /\ \A k \in DOMAIN StrategyWords :
         ~ Includes(Lower(file.name), StrategyWords[k].word)

\* C22: approveProposal on a draft or discussing proposal whose plan is
\* malformed (no campaign structure or no strategy), or whose strategy text
\* is not recognized as a platform strategy, ends with a validation error
\* and never calls createCampaign.
C22_ValidationBeforeCreate ==
  \A p \in Procs :
    (call[p].op = "approveProposal" /\ ~ NotApprovable(p)
       /\ (Malformed(p) \/ Unrecognized(p)))
      => /\ call[p].created = 0
         /\ pc[p] \in {"ap_getById", "done"}
         /\ pc[p] = "done" =>
              /\ call[p].result = "error"
              /\ call[p].failed = "Invalid proposal structure"

----
(***************************************************************************)
(* Proposal generation properties                                          *)
(***************************************************************************)

StoredProposals == {i \in DOMAIN proposals : proposals[i] # NoProposal}

\* C23: whenever no generateCampaignProposal call is running, no two
\* proposals have the same conversation_id and the conversation of every
\* proposal has that proposal as its proposal_id.
C23_ProposalOwnsConversation ==
  AllIdle =>
    /\ \A i, j \in StoredProposals :
         proposals[i].conversation_id = proposals[j].conversation_id => i = j
    /\ \A i \in StoredProposals :
         /\ proposals[i].conversation_id \in ConvIds
         /\ conversations[proposals[i].conversation_id].proposal_id = i

\* C29: a generateCampaignProposal call that fails after it inserted its
\* proposal row leaves no proposal row and no conversation link of its own
\* in the store.
C29_LinkIsAtomic ==
  \A p \in Procs :
    (pc[p] = "done" /\ call[p].op = "generateCampaignProposal"
       /\ call[p].inserted /\ call[p].result = "error")
      => /\ proposals[call[p].proposal] = NoProposal
         /\ conversations[call[p].conv].proposal_id # call[p].proposal

\* The campaigns step 6 of generateDailyReport is to create a pending
\* action for, in order: per recommendation carrying an action of a known
\* type, per entry of its target list naming a campaign of the store.
RECURSIVE Targets(_)
Targets(visits) ==
  IF visits = <<>> THEN <<>>
  ELSE LET v == Head(visits)
           rows == findByYandexId(v.target)
       IN  IF v.type \in ActionTypes /\ rows # {}
             THEN <<(CHOOSE r \in rows : TRUE).id>> \o Targets(Tail(visits))
             ELSE Targets(Tail(visits))

ExpectedTargets(p) ==
  Targets(Visits(call[p].recommendations, call[p].campaignData))

\* The campaigns of the rows the call has inserted in pending_actions.
CreatedTargets(p) ==
  [i \in 1..Len(call[p].created) |->
     pending_actions[call[p].created[i]].campaign_id]

NewActions(p) ==
  {id \in ReportActionIds : pending_actions[id] # call[p].pre[id]}

ReportReturned(p) ==
  pc[p] = "done" /\ call[p].op = "generateDailyReport" /\ call[p].result = "ok"

\* C24 as stated: a generateDailyReport call that returns, with notify true
\* or false, has created one pending action per existing target campaign of
\* every recommendation carrying an action of a known type.
C24_ActionsWhateverNotify ==
  \A p \in Procs :
    ReportReturned(p) =>
      /\ CreatedTargets(p) = ExpectedTargets(p)
      /\ NewActions(p) = {call[p].created[i] : i \in 1..Len(call[p].created)}

\* C24 amended: a call with notify true creates those pending actions, all
\* of them once it returns and the first ones of them, in order, until
\* then; a call with notify false creates no pending action.
C24_ActionsOnlyWhenNotify ==
  \A p \in Procs :
    (call[p].op = "generateDailyReport" /\ call[p].analysed) =>
      /\ NewActions(p) = {call[p].created[i] : i \in 1..Len(call[p].created)}
      /\ \A id \in NewActions(p) :
           /\ pending_actions[id].status = "pending"
           /\ pending_actions[id].type \in ActionTypes
      /\ IF call[p].notify
           THEN /\ Len(CreatedTargets(p)) <= Len(ExpectedTargets(p))
                /\ CreatedTargets(p) =
                     SubSeq(ExpectedTargets(p), 1, Len(CreatedTargets(p)))
                /\ ReportReturned(p) => CreatedTargets(p) = ExpectedTargets(p)
           ELSE NewActions(p) = {}

\* A call with notify true has returned after creating two pending actions
\* while skipping a target no campaign has.
C24_Witness ==
  \E p \in Procs :
    /\ ReportReturned(p) /\ call[p].notify
    /\ Len(call[p].created) = 2
    /\ Len(Visits(call[p].recommendations, call[p].campaignData)) > 2

\* A call with notify false has returned an analysis whose recommendations
\* carry actions for campaigns of the store.
C24_WitnessSilent ==
  \E p \in Procs :
    /\ ReportReturned(p) /\ ~call[p].notify
    /\ ExpectedTargets(p) # <<>>

\* C25: the text generateDailyReport returns lists the recommendations
\* without an attached action and no other.
C25_TextOmitsActionRecommendations ==
  \A p \in Procs :
    ReportReturned(p) => call[p].text = WithoutAction(call[p].recommendations)

\* C26: a runEveningAnalysis call never raises; whichever of its steps
\* fails, the call completes normally.
C26_EveningAnalysisNeverRaises ==
  \A p \in Procs :
    call[p].op = "runEveningAnalysis" =>
      /\ call[p].result # "error"
      /\ pc[p] = "done" => call[p].result = "ok"

\* The delivery of the evening message has failed and the call has
\* completed.
C26_Witness ==
  \E p \in Procs :
    /\ pc[p] = "done" /\ call[p].op = "runEveningAnalysis"
    /\ call[p].failed = "sendToAdmin"

\* The campaign row of yandex id y, and whether the statistics of entry
\* stat are in daily_stats.
Upserted(y) == \E r \in campaigns : r.yandex_id = y

StatSaved(stat) ==
  \E r \in campaigns :
    /\ r.yandex_id = stat.campaignId
    /\ \E d \in daily_stats :
         /\ d.campaign_id = r.id /\ d.stat_date = 1
         /\ d.cols = StatColumns(r.id, 1, stat.figures)

\* C27: a bid-modifier or keyword fetch that fails for one campaign does not
\* abort syncYandexData: the call raises only for getCampaigns or getStats,
\* every campaign the loop has passed is upserted whatever its status and
\* whatever failed for it or before it, and a call that completes has
\* upserted every campaign returned and saved every statistics entry.
C27_AuxiliaryFailureDoesNotAbort ==
  \A p \in Procs :
    call[p].op = "syncYandexData" =>
      /\ call[p].result = "error" => call[p].failed \in {"getCampaigns", "getStats"}
      /\ \A i \in 1..call[p].synced : Upserted(call[p].campaigns[i].Id)
      /\ pc[p] \in {"sy_getStats", "sy_saveStats"} =>
           call[p].synced = Len(call[p].campaigns)
      /\ (pc[p] = "done" /\ call[p].result = "ok") =>
           /\ call[p].synced = Len(call[p].campaigns)
           /\ \A i \in 1..Len(call[p].stats) : StatSaved(call[p].stats[i])

\* A sync has completed although the bid modifiers and the keywords of its
\* first campaign could not be fetched; a second campaign and statistics
\* followed.
C27_Witness ==
  \E p \in Procs :
    /\ pc[p] = "done" /\ call[p].op = "syncYandexData" /\ call[p].result = "ok"
    /\ {<<1, "getBidModifiers">>, <<1, "getKeywords">>} \subseteq call[p].warned
    /\ Len(call[p].campaigns) = 2
    /\ call[p].stats # <<>>

\* The messages the transport took, and whether it rejected none.
JobDone(p) == pc[p] = "done" /\ call[p].op = "job"

\* C28: a worker whose Orchestrator call succeeds delivers the result to
\* the chat of the job payload and the job completes; one whose
\* Orchestrator call fails sends one generic failure message to that chat
\* and the job fails. Every message of a job goes to the chat of its
\* payload. (A rejection by the chat transport itself is a failure of its
\* own: what it did not take is not delivered, and the job fails.)
C28_WorkerDeliversOrFails ==
  \A p \in Procs :
    call[p].op = "job" =>
      /\ \A i \in 1..Len(call[p].outbox) : call[p].outbox[i].chat = call[p].chatId
      /\ (JobDone(p) /\ call[p].orchestrator = "ok" /\ call[p].rejected = 0) =>
           /\ call[p].result = "completed"
           /\ call[p].outbox # <<>>
           /\ call[p].outbox \in
                {[i \in 1..Len(d) |-> [chat |-> call[p].chatId, message |-> d[i]]] :
                   d \in Deliveries(call[p].kind)}
      /\ (JobDone(p) /\ call[p].orchestrator = "error") =>
           /\ call[p].result = "failed"
           /\ call[p].notices = 1
           /\ call[p].rejected = 0 =>
                call[p].outbox = <<[chat |-> call[p].chatId, message |-> "failure"]>>
      /\ (JobDone(p) /\ call[p].rejected > 0) => call[p].result = "failed"

\* A job whose Orchestrator call failed has notified its chat and failed.
C28_Witness ==
  \E p \in Procs :
    /\ JobDone(p) /\ call[p].orchestrator = "error"
    /\ call[p].outbox = <<[chat |-> call[p].chatId, message |-> "failure"]>>

\* A daily report job has delivered the text and two recommendations.
C28_WitnessDelivered ==
  \E p \in Procs :
    /\ JobDone(p) /\ call[p].orchestrator = "ok" /\ call[p].result = "completed"
    /\ Len(call[p].outbox) = 3

\* The executeAction calls on action id that began while it was pending and
\* have not settled.
OnPending(id) ==
  {p \in DOMAIN pc :
     call[p].op = "executeAction" /\ call[p].id = id /\ call[p].pre = "pending"}

\* C30: when two executeAction calls for the same pending action run
\* concurrently, the platform mutating call is invoked at most once for the
\* action and at most one audit entry is appended for it.
C30_DoubleClickExecutesOnce ==
  \A id \in ActionIds :
    Cardinality(OnPending(id)) >= 2 =>
      /\ apiCalls[id] <= 1
      /\ experiments[id] <= 1

\* C39: after syncYandexData completes, the stored status of every
\* campaign the platform returned equals the status the platform reported
\* for it, also when statistics rows of the period name the campaign.
C39_SyncKeepsPlatformStatus ==
  \A p \in Procs :
    (pc[p] = "done" /\ call[p].op = "syncYandexData" /\ call[p].result = "ok") =>
      \A i \in 1..Len(call[p].campaigns) :
        \A r \in campaigns :
          r.yandex_id = call[p].campaigns[i].Id =>
            r.status = call[p].campaigns[i].Status

\* The previous rows of the store campaign whose yandex id is id, and the
\* sum of a column over them.
PreviousOf(p, id) ==
  {n \in 1..Len(call[p].previousStats) :
     \E r \in campaigns :
       r.yandex_id = id /\ r.id = call[p].previousStats[n].campaign_id}

RECURSIVE SumColumn(_, _, _)
SumColumn(rows, S, column) ==
  IF S = {} THEN 0
  ELSE LET n == CHOOSE m \in S : TRUE
       IN  rows[n][column] + SumColumn(rows, S \ {n}, column)

\* C40: prepareCampaignData returns one entry per distinct campaign of the
\* current stats; each day's cpa is cost/conversions when conversions > 0
\* and absent otherwise; previousPeriodStats is the sum of the previous rows
\* of that same campaign only, present exactly when their total impressions
\* are greater than 0.
C40_PrepareCampaignData ==
  \A p \in Procs :
    (pc[p] = "done" /\ call[p].op = "prepareCampaignData") =>
      LET cur == call[p].currentStats
          prev == call[p].previousStats
          res == call[p].result
      IN  /\ Len(res) = Cardinality({cur[i].campaignId : i \in 1..Len(cur)})
          /\ \A i \in 1..Len(cur) : \E k \in 1..Len(res) :
                res[k].campaignId = cur[i].campaignId
          /\ \A k \in 1..Len(res) :
                LET e == res[k]
                    mine == PreviousOf(p, e.campaignId)
                IN  /\ Len(e.stats) =
                         Cardinality({i \in 1..Len(cur) : cur[i].campaignId = e.campaignId})
                    /\ \A j \in 1..Len(e.stats) :
                         LET s == e.stats[j]
                             day == cur[s.date]
                         IN  /\ day.campaignId = e.campaignId
                             /\ s.cost = day.cost /\ s.conversions = day.conversions
                             /\ IF day.conversions > 0
                                  THEN s.cpa # Absent
                                       /\ s.cpa.num * day.conversions = s.cpa.den * day.cost
                                  ELSE s.cpa = Absent
                    /\ (e.previousPeriodStats # Absent) <=>
                         (SumColumn(prev, mine, "impressions") > 0)
                    /\ e.previousPeriodStats # Absent =>
                         \A column \in {"impressions", "clicks", "cost", "conversions"} :
                           e.previousPeriodStats[column] = SumColumn(prev, mine, column)

\* Two campaigns in the current stats, a day with and a day without
\* conversions, previous rows of the campaign and of another one.
C40_Witness ==
  \E p \in Procs :
    /\ pc[p] = "done" /\ call[p].op = "prepareCampaignData"
    /\ Len(call[p].result) = 2
    /\ \E k \in 1..2 :
         /\ call[p].result[k].previousPeriodStats # Absent
         /\ call[p].result[k].stats[1].cpa # Absent
    /\ \E k \in 1..2 : call[p].result[k].stats[1].cpa = Absent
    /\ Len(call[p].previousStats) = 3

\* C32: after setCurrentProposal(u, Y) succeeds, getSession(u) reports
\* currentProposalId = Y.
C32_ProposalPointerReported ==
  \A p \in Procs :
    Returned(p, "setCurrentProposal") =>
      getSession(call[p].user).currentProposalId = call[p].arg

\* C33: a focus switch that fails for an unknown campaign or proposal id
\* leaves the store as before the call: the session pointers are unchanged
\* and the session's current conversation was neither summarized nor
\* archived by the call.
C33_FailedSwitchChangesNothing ==
  \A p \in Procs :
    (pc[p] = "done" /\ call[p].op \in {"setCurrentCampaign", "setCurrentProposal"}
       /\ call[p].result = "NotFound") =>
      /\ user_sessions[call[p].user].current_campaign_id = call[p].preCampaign
      /\ user_sessions[call[p].user].current_conversation_id = call[p].preConv
      /\ call[p].summarized = 0
      /\ call[p].wrote = 0
      /\ call[p].preConv # NoId /\ call[p].preMsgs >= 2 =>
           conversations[call[p].preConv].summary = NULL

\* C31: over any sequence of focus switches, every conversation is sent
\* to summarizeConversation at most once.
C31_SummarizedAtMostOnce ==
  \A c \in ConvIds : summarizeCalls[c] <= 1

\* The reject button of the card of action id has been pressed and handled.
RejectPressed(id) ==
  \E p \in DOMAIN pc :
    pc[p] = "done" /\ call[p].op = "reject" /\ call[p].id = id

\* C36: after the reject button of an action card is pressed, the action's
\* status is rejected, and a later press of approve for the same action
\* makes no platform call.
C36_RejectButtonRejects ==
  [][\A id \in ActionIds :
       RejectPressed(id) =>
         /\ StatusOf(id) = "rejected"
         /\ apiCalls'[id] = apiCalls[id]]_vars

\* C37: every approve button delivered by a report job carries the id of
\* an existing pending action: the executeAction call a press makes is
\* given an id that findById resolves to an action in status pending.
C37_DeliveredButtonsArePending ==
  \A q \in Pressers \cap DOMAIN pc :
    call[q].op = "executeAction" =>
      /\ call[q].pre = "pending"
      /\ pc[q] \notin {"ex_find", "idle"} => call[q].action # NoAction

\* The approveProposal calls made for proposal i.
ApprovalsOf(i) ==
  {p \in DOMAIN pc : call[p].op = "approveProposal" /\ call[p].arg = i}

\* C35: when two approveProposal calls for the same proposal run
\* concurrently, or the call is retried after a failure later than its
\* createCampaign call (no createCampaign call itself having failed), the
\* platform's createCampaign is called at most once for the proposal.
C35_CreateCampaignAtMostOnce ==
  \A i \in ProposalIds :
    (\A p \in ApprovalsOf(i) : call[p].failed # "createCampaign") =>
      Cardinality({p \in ApprovalsOf(i) : call[p].created > 0}) <= 1

\* C38: when two handleUserQuestion calls that resolve to the same
\* conversation run concurrently, the conversation still alternates
\* question and answer: every assistant message comes directly after a
\* user message.
C38_ConcurrentQuestionsAlternate ==
  \A c \in ConvIds :
    \A i \in 1..Len(messages[c]) :
      messages[c][i] = "assistant" => i > 1 /\ messages[c][i - 1] = "user"

\* The campaign-analysis conversation the session of call p pointed to
\* when the call began, if it is the one of the campaign the question was
\* resolved to; NoId otherwise.
FocusedConversation(p) ==
  LET s == call[p].pre.user_sessions[call[p].user]
      c == s.current_conversation_id
  IN  IF /\ c # NoId
         /\ call[p].pre.conversations[c].type = "campaign_analysis"
         /\ call[p].pre.conversations[c].status = "active"
         /\ \E r \in campaigns :
              /\ r.yandex_id = call[p].campaignContext
              /\ r.id = call[p].pre.conversations[c].campaign_id
        THEN c ELSE NoId

\* C34: after setCurrentCampaign(u, X), a question resolved to campaign X
\* (the LLM calls not failing) is appended to the conversation the session
\* points to, and no second active campaign-analysis conversation of X
\* exists.
C34_QuestionJoinsFocusedConversation ==
  \A p \in Procs :
    (/\ pc[p] = "done" /\ call[p].op = "handleUserQuestion"
     /\ call[p].campaignContext # NoId
     /\ call[p].failed \notin {"classify", "answer"}
     /\ FocusedConversation(p) # NoId) =>
      LET c == FocusedConversation(p) IN
        /\ call[p].result = "answer"
        /\ call[p].conv = c
        /\ messages[c] = call[p].pre.messages[c] \o <<"user", "assistant">>
        /\ \A d \in ConvIds \ {c} :
             ~ /\ conversations[d] # NoConversation
               /\ conversations[d].type = "campaign_analysis"
               /\ conversations[d].status = "active"
               /\ conversations[d].campaign_id \in
                    {conversations[c].campaign_id, call[p].campaignContext}

====
